---------------------------- MODULE Spec2Model ----------------------------
(***************************************************************************)
(* RetroGalatica: the MongoDB-export parser (parse_mongodb_json), the      *)
(* position resolver (buscar_posicao_jogador, extrair_posicao_normalizada, *)
(* normalizar_posicao) and the team draw (sortear_times) of src/app.py,    *)
(* and the award and stat rankings (extrair_awards_jogadores) of           *)
(* src/gerar_ranking.py.                                                   *)
(*                                                                         *)
(* Text is a sequence of one-character strings.  A JSON value is a record  *)
(* [t, s, n, kv]: t is the Python type the value has after json.loads      *)
(* ("str", "num", "dict", "list", "bool", "null"), s the characters of a   *)
(* str, n the value of a num (1/0 for a bool), kv the members of a dict    *)
(* (records [k, v], in text order) or the items of a list (k empty).       *)
(***************************************************************************)
EXTENDS Integers, Sequences, FiniteSets, TLC

(***************************************************************************)
(* Characters and the str methods the code uses                            *)
(***************************************************************************)
QUOTE == "\""
BACKSLASH == "\\"
NEWLINE == "\n"

UpperCase ==
    <<"A", "B", "C", "D", "E", "F", "G", "H", "I", "J", "K", "L", "M",
      "N", "O", "P", "Q", "R", "S", "T", "U", "V", "W", "X", "Y", "Z">>
LowerCase ==
    <<"a", "b", "c", "d", "e", "f", "g", "h", "i", "j", "k", "l", "m",
      "n", "o", "p", "q", "r", "s", "t", "u", "v", "w", "x", "y", "z">>
Digits == <<"0", "1", "2", "3", "4", "5", "6", "7", "8", "9">>

\* str.isspace characters that occur in text
Whitespace == {" ", "\n", "\t", "\r"}

IsDigit(c) == \E d \in 1..Len(Digits) : Digits[d] = c
DigitValue(c) == (CHOOSE d \in 1..Len(Digits) : Digits[d] = c) - 1

\* str.lower, one character
LowerChar(c) ==
    IF \E u \in 1..Len(UpperCase) : UpperCase[u] = c
    THEN LowerCase[CHOOSE u \in 1..Len(UpperCase) : UpperCase[u] = c]
    ELSE c

\* str.lower
Lower(s) == [i \in 1..Len(s) |-> LowerChar(s[i])]

\* str.strip: leading and trailing whitespace removed
Strip(s) ==
    LET keep == {i \in 1..Len(s) : s[i] \notin Whitespace}
    IN  IF keep = {} THEN <<>>
        ELSE LET lo == CHOOSE i \in keep : \A j \in keep : i <= j
                 hi == CHOOSE i \in keep : \A j \in keep : j <= i
             IN  SubSeq(s, lo, hi)

\* needle in hay (substring)
Contains(hay, needle) ==
    \E i \in 0..(Len(hay) - Len(needle)) :
        SubSeq(hay, i + 1, i + Len(needle)) = needle

\* hay.startswith(prefix)
StartsWith(hay, prefix) ==
    /\ Len(prefix) <= Len(hay)
    /\ SubSeq(hay, 1, Len(prefix)) = prefix

\* s[i..] starts with the characters lit
MatchAt(s, i, lit) ==
    /\ i + Len(lit) - 1 <= Len(s)
    /\ SubSeq(s, i, i + Len(lit) - 1) = lit

RECURSIVE FoldLeft(_, _, _, _, _)
\* A loop over s[lo..hi], left to right: Op(acc, s[k]) is the body, acc what
\* it carries.  The range is halved, and the left half is evaluated before
\* the right one is entered, so that the evaluation stays shallow.
FoldLeft(Op(_, _), acc, s, lo, hi) ==
    IF lo > hi THEN acc
    ELSE IF lo = hi THEN Op(acc, s[lo])
    ELSE LET mid == (lo + hi) \div 2
             left == FoldLeft(Op, acc, s, lo, mid)
         IN  IF left = left THEN FoldLeft(Op, left, s, mid + 1, hi) ELSE left

\* The least element of a non-empty set of integers
Min(S) == CHOOSE x \in S : \A y \in S : x <= y

\* str.split(sep) for a one-character sep: the pieces between the
\* occurrences of sep, empty pieces kept
SplitOn(s, sep) ==
    LET at == {i \in 1..Len(s) : s[i] = sep}
        \* the index of the k-th occurrence; 0 before the first, Len(s) + 1
        \* after the last
        pos(k) == IF k = 0 THEN 0
                  ELSE IF k > Cardinality(at) THEN Len(s) + 1
                  ELSE CHOOSE p \in at : Cardinality({q \in at : q < p}) = k - 1
    IN  [k \in 1..(Cardinality(at) + 1) |-> SubSeq(s, pos(k - 1) + 1, pos(k) - 1)]

\* content.split('\n')
SplitLines(s) == SplitOn(s, NEWLINE)

\* str.split(): the maximal runs of non-whitespace characters
SplitWords(s) ==
    LET Step(a, c) ==
            IF c \in Whitespace
            THEN [words |-> IF a.cur = <<>> THEN a.words ELSE Append(a.words, a.cur),
                  cur |-> <<>>]
            ELSE [a EXCEPT !.cur = Append(a.cur, c)]
        end == FoldLeft(Step, [words |-> <<>>, cur |-> <<>>], s, 1, Len(s))
    IN  IF end.cur = <<>> THEN end.words ELSE Append(end.words, end.cur)

\* sep.join(parts)
JoinWith(parts, sep) ==
    LET Step(a, part) == a \o sep \o part
    IN  IF parts = <<>> THEN <<>>
        ELSE FoldLeft(Step, parts[1], parts, 2, Len(parts))

\* '\n'.join(lines)
JoinLines(ls) == JoinWith(ls, <<NEWLINE>>)

(***************************************************************************)
(* JSON values and json.loads                                              *)
(***************************************************************************)
JStr(chars) == [t |-> "str", s |-> chars, n |-> 0, kv |-> <<>>]
JNum(k) == [t |-> "num", s |-> <<>>, n |-> k, kv |-> <<>>]
JBool(b) == [t |-> "bool", s |-> <<>>, n |-> IF b THEN 1 ELSE 0, kv |-> <<>>]
JNull == [t |-> "null", s |-> <<>>, n |-> 0, kv |-> <<>>]
JDict(members) == [t |-> "dict", s |-> <<>>, n |-> 0, kv |-> members]
JList(items) == [t |-> "list", s |-> <<>>, n |-> 0, kv |-> items]
Member(key, val) == [k |-> key, v |-> val]

\* isinstance(data, dict), isinstance(data, list)
IsDict(v) == v.t = "dict"
IsList(v) == v.t = "list"

\* key in data, for a dict
HasKey(d, key) == \E i \in 1..Len(d.kv) : d.kv[i].k = key

\* data[key]: json.loads keeps the last of duplicate keys
DictGet(d, key) ==
    LET at == {i \in 1..Len(d.kv) : d.kv[i].k = key}
    IN  d.kv[CHOOSE i \in at : \A j \in at : j <= i].v

\* The result of a scan: ok, the value read and the index after it
Scanned(val, next) == [ok |-> TRUE, v |-> val, i |-> next]
ScanFail == [ok |-> FALSE, v |-> JNull, i |-> 0]

\* The first index from i on that holds no whitespace (Len(s) + 1 at the end)
SkipWs(s, i) ==
    Min({k \in i..(Len(s) + 1) : k = Len(s) + 1 \/ s[k] \notin Whitespace})

\* The simple escapes of a JSON string and the characters they stand for
EscapeOf(c) ==
    CASE c = QUOTE -> QUOTE
      [] c = BACKSLASH -> BACKSLASH
      [] c = "/" -> "/"
      [] c = "n" -> "\n"
      [] c = "t" -> "\t"
      [] c = "r" -> "\r"
      [] c = "b" -> "\\b"
      [] c = "f" -> "\\f"
      [] OTHER -> ""

\* One character of a string body: a is where the scan is ("body", "escape"
\* after a backslash, "closed", "error"), the characters decoded and the
\* index after the closing quote.  A raw control character is an error
\* (strict mode), as is an escape that is not one of the simple ones.
StringChar(a, ic) ==
    LET c == ic[2]
    IN  IF a.at = "escape"
        THEN IF EscapeOf(c) = "" THEN [a EXCEPT !.at = "error"]
             ELSE [a EXCEPT !.at = "body", !.chars = Append(a.chars, EscapeOf(c))]
        ELSE IF a.at = "body"
        THEN IF c = QUOTE THEN [a EXCEPT !.at = "closed", !.i = ic[1] + 1]
             ELSE IF c = BACKSLASH THEN [a EXCEPT !.at = "escape"]
             ELSE IF c \in {"\n", "\t", "\r"} THEN [a EXCEPT !.at = "error"]
             ELSE [a EXCEPT !.chars = Append(a.chars, c)]
        ELSE a

\* The string whose body starts at index j (the opening quote is before j)
ScanString(s, j, acc) ==
    LET indexed == [k \in 1..Len(s) |-> <<k, s[k]>>]
        end == FoldLeft(StringChar, [at |-> "body", chars |-> acc, i |-> 0],
                        indexed, j, Len(s))
    IN  IF end.at = "closed" THEN Scanned(JStr(end.chars), end.i) ELSE ScanFail

\* The index after the longest run of digits from index j on
DigitRunEnd(s, j) ==
    Min({k \in j..(Len(s) + 1) : k = Len(s) + 1 \/ ~IsDigit(s[k])})

\* int(digits)
DigitsValue(digits) ==
    LET Step(a, c) == a * 10 + DigitValue(c)
    IN  FoldLeft(Step, 0, digits, 1, Len(digits))

\* An integer: -?(0|[1-9][0-9]*).  The texts hold no fractions or exponents.
ScanNumber(s, i) ==
    LET neg == s[i] = "-"
        j == IF neg THEN i + 1 ELSE i
    IN  IF j > Len(s) \/ ~IsDigit(s[j]) THEN ScanFail
        ELSE IF s[j] = "0" THEN Scanned(JNum(0), j + 1)
        ELSE LET e == DigitRunEnd(s, j)
                 n == DigitsValue(SubSeq(s, j, e - 1))
             IN  Scanned(JNum(IF neg THEN 0 - n ELSE n), e)

LitTrue == <<"t", "r", "u", "e">>
LitFalse == <<"f", "a", "l", "s", "e">>
LitNull == <<"n", "u", "l", "l">>

RECURSIVE ScanValue(_, _), ScanMembers(_, _, _), ScanItems(_, _, _)
\* scan_once: the JSON value that starts exactly at index i
ScanValue(s, i) ==
    IF i > Len(s) THEN ScanFail
    ELSE IF s[i] = QUOTE THEN ScanString(s, i + 1, <<>>)
    ELSE IF s[i] = "{"
         THEN LET j == SkipWs(s, i + 1)
              IN  IF j <= Len(s) /\ s[j] = "}" THEN Scanned(JDict(<<>>), j + 1)
                  ELSE ScanMembers(s, j, <<>>)
    ELSE IF s[i] = "["
         THEN LET j == SkipWs(s, i + 1)
              IN  IF j <= Len(s) /\ s[j] = "]" THEN Scanned(JList(<<>>), j + 1)
                  ELSE ScanItems(s, j, <<>>)
    ELSE IF MatchAt(s, i, LitTrue) THEN Scanned(JBool(TRUE), i + 4)
    ELSE IF MatchAt(s, i, LitFalse) THEN Scanned(JBool(FALSE), i + 5)
    ELSE IF MatchAt(s, i, LitNull) THEN Scanned(JNull, i + 4)
    ELSE IF s[i] = "-" \/ IsDigit(s[i]) THEN ScanNumber(s, i)
    ELSE ScanFail

\* The members of an object from index j on (at a key), acc those read
ScanMembers(s, j, acc) ==
    LET AfterValue(key, val, e) ==
            IF e > Len(s) THEN ScanFail
            ELSE IF s[e] = "}"
                 THEN Scanned(JDict(Append(acc, Member(key.v.s, val.v))), e + 1)
            ELSE IF s[e] = ","
                 THEN ScanMembers(s, SkipWs(s, e + 1),
                                  Append(acc, Member(key.v.s, val.v)))
            ELSE ScanFail
        Value(key, val) ==
            IF ~val.ok THEN ScanFail ELSE AfterValue(key, val, SkipWs(s, val.i))
        AfterKey(key, c) ==
            IF c > Len(s) \/ s[c] # ":" THEN ScanFail
            ELSE Value(key, ScanValue(s, SkipWs(s, c + 1)))
        Key(key) ==
            IF ~key.ok THEN ScanFail ELSE AfterKey(key, SkipWs(s, key.i))
    IN  IF j > Len(s) \/ s[j] # QUOTE THEN ScanFail
        ELSE Key(ScanString(s, j + 1, <<>>))

\* The items of an array from index j on (at a value), acc those read
ScanItems(s, j, acc) ==
    LET AfterValue(val, e) ==
            IF e > Len(s) THEN ScanFail
            ELSE IF s[e] = "]"
                 THEN Scanned(JList(Append(acc, Member(<<>>, val.v))), e + 1)
            ELSE IF s[e] = ","
                 THEN ScanItems(s, SkipWs(s, e + 1),
                                Append(acc, Member(<<>>, val.v)))
            ELSE ScanFail
        Value(val) ==
            IF ~val.ok THEN ScanFail ELSE AfterValue(val, SkipWs(s, val.i))
    IN  Value(ScanValue(s, j))

\* json.loads(s): one value with whitespace around it and nothing else;
\* ok = FALSE stands for json.JSONDecodeError
JsonLoads(s) ==
    LET Whole(val) ==
            IF ~val.ok THEN ScanFail
            ELSE IF SkipWs(s, val.i) # Len(s) + 1 THEN ScanFail
            ELSE val
    IN  Whole(ScanValue(s, SkipWs(s, 1)))

(***************************************************************************)
(* parse_mongodb_json: the three re.sub rewrites                           *)
(***************************************************************************)
LitObjectId == <<"O", "b", "j", "e", "c", "t", "I", "d">>
LitNumberInt == <<"N", "u", "m", "b", "e", "r", "I", "n", "t">>
LitISODate == <<"I", "S", "O", "D", "a", "t", "e">>

\* [^"]+ from index j: the index after the longest run of non-quote characters
NonQuoteRunEnd(s, j) ==
    Min({k \in j..(Len(s) + 1) : k = Len(s) + 1 \/ s[k] = QUOTE})

\* Where a match of the pattern that starts at index i ends (the index
\* after it), 0 when none starts there: name, "(", the group, ")", the
\* group in quotes and of non-quote characters when quoted, of digits when not
MatchEnd(s, i, name, quoted) ==
    LET open == name \o <<"(">> \o (IF quoted THEN <<QUOTE>> ELSE <<>>)
        close == (IF quoted THEN <<QUOTE>> ELSE <<>>) \o <<")">>
        b == i + Len(open)
        e == IF quoted THEN NonQuoteRunEnd(s, b) ELSE DigitRunEnd(s, b)
    IN  IF MatchAt(s, i, open) /\ e > b /\ MatchAt(s, e, close)
        THEN e + Len(close)
        ELSE 0

RECURSIVE ReSubWrapper(_, _, _, _)
\* re.sub(r'name\("([^"]+)"\)', r'"\1"', s) when quoted, and
\* re.sub(r'name\((\d+)\)', r'\1', s) when not: the leftmost match from
\* index i on is replaced by its group (in quotes when quoted), the text
\* before it copied, and the rewrite goes on after the match
ReSubWrapper(s, i, name, quoted) ==
    LET starts == {p \in i..Len(s) : MatchEnd(s, p, name, quoted) # 0}
    IN  IF starts = {} THEN SubSeq(s, i, Len(s))
        ELSE LET p == Min(starts)
                 e == MatchEnd(s, p, name, quoted)
                 \* what is between "(" and ")": the group, with its quotes
                 \* when quoted, which is the replacement
                 inside == SubSeq(s, p + Len(name) + 1, e - 2)
             IN  SubSeq(s, i, p - 1) \o inside \o ReSubWrapper(s, e, name, quoted)

\* The content after the ObjectId, NumberInt and ISODate rewrites, in order
RemoveWrappers(content) ==
    LET a == ReSubWrapper(content, 1, LitObjectId, TRUE)
        b == ReSubWrapper(a, 1, LitNumberInt, FALSE)
    IN  ReSubWrapper(b, 1, LitISODate, TRUE)

(***************************************************************************)
(* parse_mongodb_json: the line scan and the whole-text fallback           *)
(***************************************************************************)
KeyFullName == <<"f", "u", "l", "l", "N", "a", "m", "e">>

\* The counters of the scan before the first line
ScanStart ==
    [current_obj_lines |-> <<>>, depth |-> 0, in_string |-> FALSE,
     escape_next |-> FALSE, players |-> <<>>]

\* The iteration with the brackets counted inside string literals too
CountCharEmStrings(c, char) ==
    IF c.escape_next THEN [c EXCEPT !.escape_next = FALSE]
    ELSE IF char = BACKSLASH THEN [c EXCEPT !.escape_next = TRUE]
    ELSE IF char = QUOTE THEN [c EXCEPT !.in_string = ~c.in_string]
    ELSE IF char \in {"{", "["} THEN [c EXCEPT !.depth = c.depth + 1]
    ELSE IF char \in {"}", "]"} THEN [c EXCEPT !.depth = c.depth - 1]
    ELSE c

\* One iteration of "for char in line" (lines 49-66)
CountChar(c, char) ==
    IF c.escape_next THEN [c EXCEPT !.escape_next = FALSE]
    ELSE IF char = BACKSLASH THEN [c EXCEPT !.escape_next = TRUE]
    ELSE IF char = QUOTE THEN [c EXCEPT !.in_string = ~c.in_string]
    ELSE IF ~c.in_string /\ char \in {"{", "["} THEN [c EXCEPT !.depth = c.depth + 1]
    ELSE IF ~c.in_string /\ char \in {"}", "]"} THEN [c EXCEPT !.depth = c.depth - 1]
    ELSE c

\* for char in line: the counters c after the characters of line
CountBrackets(line, c) == FoldLeft(CountChar, c, line, 1, Len(line))

\* data = json.loads(obj_str);
\* if isinstance(data, dict) and 'fullName' in data: players.append(data)
\* (a JSONDecodeError is swallowed: lines 75-76)
KeepObject(players, obj_str) ==
    LET Keep(data) ==
            IF data.ok /\ IsDict(data.v) /\ HasKey(data.v, KeyFullName)
            THEN Append(players, data.v)
            ELSE players
    IN  Keep(JsonLoads(obj_str))

\* One iteration of "for line in lines"
ScanLine(st, line) ==
    LET Counted(c) ==
            IF c.depth = 0
            THEN [c EXCEPT !.current_obj_lines = <<>>,
                           !.players =
                               KeepObject(st.players,
                                          JoinLines(Append(st.current_obj_lines, line)))]
            ELSE [c EXCEPT !.current_obj_lines = Append(st.current_obj_lines, line)]
    IN  IF st.current_obj_lines = <<>> /\ ~Contains(line, <<"{">>) THEN st
        ELSE Counted(CountBrackets(line, st))

\* if not players: the whole content parsed at once
WholeTextFallback(players, content) ==
    LET Loaded(data) ==
            IF ~data.ok THEN players
            ELSE IF IsDict(data.v) THEN <<data.v>>
            ELSE IF IsList(data.v)
                 THEN [i \in 1..Len(data.v.kv) |-> data.v.kv[i].v]
            ELSE players
    IN  IF players # <<>> THEN players ELSE Loaded(JsonLoads(content))

\* for line in lines (lines 42-78)
ScanLines(lines, st) == FoldLeft(ScanLine, st, lines, 1, Len(lines))

\* parse_mongodb_json(content), as sortear_times calls it
ParseMongodbJson(content) ==
    LET Parsed(text) ==
            WholeTextFallback(ScanLines(SplitLines(text), ScanStart).players, text)
    IN  Parsed(RemoveWrappers(content))

(***************************************************************************)
(* The position resolver                                                   *)
(***************************************************************************)
KeyPosition == <<"p", "o", "s", "i", "t", "i", "o", "n">>
KeyPrizeDrawPosition ==
    <<"p", "r", "i", "z", "e", "D", "r", "a", "w", "P", "o", "s", "i", "t", "i", "o", "n">>

\* What a call gives back: raised (an exception left it), found (a value
\* other than None was returned) and the string returned
Raised == [raised |-> TRUE, found |-> FALSE, s |-> <<>>]
Returned(chars) == [raised |-> FALSE, found |-> TRUE, s |-> chars]
ReturnedNone == [raised |-> FALSE, found |-> FALSE, s |-> <<>>]

\* player.get(key, '').strip(): AttributeError when player is no dict or
\* the value under key is no str
GetStripped(player, key) ==
    IF ~IsDict(player) THEN Raised
    ELSE IF ~HasKey(player, key) THEN Returned(<<>>)
    ELSE IF DictGet(player, key).t # "str" THEN Raised
    ELSE Returned(Strip(DictGet(player, key).s))

\* extrair_posicao_normalizada(player)
extrair_posicao_normalizada(player) ==
    LET position == GetStripped(player, KeyPosition)
        prize_draw_position == GetStripped(player, KeyPrizeDrawPosition)
    IN  IF position.raised \/ prize_draw_position.raised THEN Raised
        ELSE LET posicao_final ==
                     IF prize_draw_position.s # <<>> THEN prize_draw_position.s
                     ELSE position.s
                 posicao_lower == Lower(posicao_final)
             IN  IF \/ Contains(posicao_lower, <<"z", "a", "g", "u", "e", "i", "r", "o">>)
                    \/ Contains(posicao_lower, <<"l", "a", "t", "e", "r", "a", "l">>)
                 THEN Returned(<<"Z", "A", "G">>)
                 ELSE IF \/ Contains(posicao_lower, <<"m", "e", "i", "a">>)
                         \/ Contains(posicao_lower, <<"v", "o", "l", "a", "n", "t", "e">>)
                 THEN Returned(<<"M", "E", "I">>)
                 ELSE IF \/ Contains(posicao_lower, <<"a", "t", "a", "c", "a", "n", "t", "e">>)
                         \/ Contains(posicao_lower, <<"p", "o", "n", "t", "a">>)
                 THEN Returned(<<"A", "T", "A">>)
                 ELSE IF \/ Contains(posicao_lower,
                               <<"p", "o", "n", "t", "a", " ", "e", "s", "q", "u", "e", "r", "d", "a">>)
                         \/ Contains(posicao_lower,
                               <<"p", "o", "n", "t", "a", " ", "d", "i", "r", "e", "i", "t", "a">>)
                 THEN Returned(<<"A", "T", "A">>)
                 ELSE IF \/ Contains(posicao_lower,
                               <<"l", "a", "t", "e", "r", "a", "l", " ", "d", "i", "r", "e", "i", "t", "o">>)
                         \/ Contains(posicao_lower,
                               <<"l", "a", "t", "e", "r", "a", "l", " ", "e", "s", "q", "u", "e", "r", "d", "o">>)
                 THEN Returned(<<"Z", "A", "G">>)
                 ELSE Returned(posicao_final)

RECURSIVE BuscaPrimeiraPalavra(_, _, _)
\* The second loop of buscar_posicao_jogador, from player k on
BuscaPrimeiraPalavra(primeira_palavra, players, k) ==
    IF k > Len(players) THEN ReturnedNone
    ELSE LET full_name == GetStripped(players[k], KeyFullName)
         IN  IF full_name.raised THEN Raised
             ELSE IF \/ StartsWith(Lower(full_name.s), primeira_palavra)
                     \/ Contains(Lower(full_name.s), primeira_palavra)
                  THEN extrair_posicao_normalizada(players[k])
             ELSE BuscaPrimeiraPalavra(primeira_palavra, players, k + 1)

RECURSIVE BuscaExatoOuPalavras(_, _, _, _)
\* The first loop of buscar_posicao_jogador, from player k on, and then
\* the second loop
BuscaExatoOuPalavras(nome_normalizado, palavras_nome, players, k) ==
    IF k > Len(players)
    THEN IF palavras_nome # <<>>
         THEN BuscaPrimeiraPalavra(palavras_nome[1], players, 1)
         ELSE ReturnedNone
    ELSE LET full_name == GetStripped(players[k], KeyFullName)
             full_name_lower == Lower(full_name.s)
         IN  IF full_name.raised THEN Raised
             ELSE IF full_name_lower = nome_normalizado
                  THEN extrair_posicao_normalizada(players[k])
             ELSE IF /\ palavras_nome # <<>>
                     /\ \A w \in 1..Len(palavras_nome) :
                            Contains(full_name_lower, palavras_nome[w])
                  THEN extrair_posicao_normalizada(players[k])
             ELSE BuscaExatoOuPalavras(nome_normalizado, palavras_nome, players, k + 1)

\* buscar_posicao_jogador(nome, players)
buscar_posicao_jogador(nome, players) ==
    LET nome_normalizado == Lower(Strip(nome))
        palavras_nome == SplitWords(nome_normalizado)
    IN  BuscaExatoOuPalavras(nome_normalizado, palavras_nome, players, 1)

\* The codes with the test for MEI before the test for ZAG
MeiAntesDeZag(posicao) ==
    LET posicao_lower == Lower(posicao)
    IN  IF \/ Contains(posicao_lower, <<"m", "e", "i">>)
           \/ Contains(posicao_lower, <<"v", "o", "l", "a", "n", "t", "e">>)
        THEN "MEI"
        ELSE IF \/ Contains(posicao_lower, <<"z", "a", "g">>)
                \/ Contains(posicao_lower, <<"l", "a", "t", "e", "r", "a", "l">>)
        THEN "ZAG"
        ELSE "ATA"

\* normalizar_posicao(posicao): one of the codes ZAG, MEI and ATA
normalizar_posicao(posicao) ==
    IF posicao = <<>> THEN "ATA"
    ELSE LET posicao_lower == Lower(posicao)
         IN  IF \/ Contains(posicao_lower, <<"z", "a", "g">>)
                \/ Contains(posicao_lower, <<"l", "a", "t", "e", "r", "a", "l">>)
             THEN "ZAG"
             ELSE IF \/ Contains(posicao_lower, <<"m", "e", "i">>)
                     \/ Contains(posicao_lower, <<"v", "o", "l", "a", "n", "t", "e">>)
             THEN "MEI"
             ELSE IF \/ Contains(posicao_lower, <<"a", "t", "a">>)
                     \/ Contains(posicao_lower, <<"p", "o", "n", "t", "a">>)
             THEN "ATA"
             ELSE "ATA"

(***************************************************************************)
(* sortear_times: the tables                                               *)
(***************************************************************************)
\* todos_jogadores, as written
Roster ==
    <<"Arnaldo", "Ronald", "Luiz Kelvin", "Kawa Messi", "Henrique",
      "Vertinho", "Cabinha", "Weslly", "Guilherme", "Nilson",
      "Tavares", "Samuel", "Jonis", "Adelson", "Deyvde",
      "Kelvin", "Andrew", "Lito", "Caio", "Luan",
      "Matador", "Israel", "Luiz", "Vini", "Arthur">>

\* The characters of each roster name
NameChars(nome) ==
    CASE nome = "Arnaldo" -> <<"A", "r", "n", "a", "l", "d", "o">>
      [] nome = "Ronald" -> <<"R", "o", "n", "a", "l", "d">>
      [] nome = "Luiz Kelvin" -> <<"L", "u", "i", "z", " ", "K", "e", "l", "v", "i", "n">>
      [] nome = "Kawa Messi" -> <<"K", "a", "w", "a", " ", "M", "e", "s", "s", "i">>
      [] nome = "Henrique" -> <<"H", "e", "n", "r", "i", "q", "u", "e">>
      [] nome = "Vertinho" -> <<"V", "e", "r", "t", "i", "n", "h", "o">>
      [] nome = "Cabinha" -> <<"C", "a", "b", "i", "n", "h", "a">>
      [] nome = "Weslly" -> <<"W", "e", "s", "l", "l", "y">>
      [] nome = "Guilherme" -> <<"G", "u", "i", "l", "h", "e", "r", "m", "e">>
      [] nome = "Nilson" -> <<"N", "i", "l", "s", "o", "n">>
      [] nome = "Tavares" -> <<"T", "a", "v", "a", "r", "e", "s">>
      [] nome = "Samuel" -> <<"S", "a", "m", "u", "e", "l">>
      [] nome = "Jonis" -> <<"J", "o", "n", "i", "s">>
      [] nome = "Adelson" -> <<"A", "d", "e", "l", "s", "o", "n">>
      [] nome = "Deyvde" -> <<"D", "e", "y", "v", "d", "e">>
      [] nome = "Kelvin" -> <<"K", "e", "l", "v", "i", "n">>
      [] nome = "Andrew" -> <<"A", "n", "d", "r", "e", "w">>
      [] nome = "Lito" -> <<"L", "i", "t", "o">>
      [] nome = "Caio" -> <<"C", "a", "i", "o">>
      [] nome = "Luan" -> <<"L", "u", "a", "n">>
      [] nome = "Matador" -> <<"M", "a", "t", "a", "d", "o", "r">>
      [] nome = "Israel" -> <<"I", "s", "r", "a", "e", "l">>
      [] nome = "Luiz" -> <<"L", "u", "i", "z">>
      [] nome = "Vini" -> <<"V", "i", "n", "i">>
      [] nome = "Arthur" -> <<"A", "r", "t", "h", "u", "r">>
      [] OTHER -> <<>>

\* jogadores_com_posicao, as written
PosicoesConhecidas ==
    ("Arnaldo" :> "ATA" @@
     "Ronald" :> "ZAG" @@
     "Luiz Kelvin" :> "ZAG" @@
     "Kawa Messi" :> "ZAG" @@
     "Henrique" :> "ZAG" @@
     "Vertinho" :> "ATA" @@
     "Cabinha" :> "ZAG" @@
     "Weslly" :> "ZAG" @@
     "Guilherme" :> "ZAG" @@
     "Nilson" :> "ATA" @@
     "Tavares" :> "MEI" @@
     "Samuel" :> "ZAG" @@
     "Jonis" :> "ATA" @@
     "Adelson" :> "MEI" @@
     "Deyvde" :> "ATA" @@
     "Kelvin" :> "ATA" @@
     "Andrew" :> "ATA" @@
     "Lito" :> "ZAG" @@
     "Caio" :> "ZAG" @@
     "Luan" :> "ZAG" @@
     "Matador" :> "ATA" @@
     "Israel" :> "ATA" @@
     "Luiz" :> "ZAG" @@
     "Vini" :> "MEI" @@
     "Arthur" :> "ATA")

jogadores_sem_posicao == <<"Luiz Kelvin", "Nilson", "Adelson", "Luan">>

grupo_restrito == <<"Arnaldo", "Kelvin", "Tavares", "Vertinho">>

\* nome_alternativo: its keys and the name each stands for
nome_alternativo == [j \in {"Matheus Tavares"} |-> "Tavares"]

max_tentativas == 50

\* A loop that allows one attempt more than max_tentativas
LimiteFrouxo(t) == t < max_tentativas + 1

\* while tentativa < max_tentativas (line 329)
DentroDoLimite(t) == t < max_tentativas

\* A redistribution that does not wait for the attempts to run out
SemEsperarTentativas(t) == TRUE

\* if tentativa >= max_tentativas (line 371)
Esgotou(t) == t >= max_tentativas

\* The set of the members of a list
Members(s) == {s[i] : i \in 1..Len(s)}

\* j in grupo_restrito, or an alternative name of a member of it
EhRestrito(j) ==
    \/ j \in Members(grupo_restrito)
    \/ (j \in DOMAIN nome_alternativo /\ nome_alternativo[j] \in Members(grupo_restrito))

\* [j for j in s if j in keep]
Filter(s, keep) == SelectSeq(s, LAMBDA j : j \in keep)

\* list.remove(x): the first occurrence of x taken out
RemoveFirst(s, x) ==
    LET at == Min({i \in 1..Len(s) : s[i] = x})
    IN  SubSeq(s, 1, at - 1) \o SubSeq(s, at + 1, Len(s))

(***************************************************************************)
(* random.shuffle                                                          *)
(***************************************************************************)
\* The next state of the generator (a Lehmer generator stands for the
\* module's generator)
NextRandom(x) == (x * 219) % 32749

RECURSIVE FisherYates(_, _, _)
\* random.shuffle(x): for i from the last index down to the second,
\* x[i] is exchanged with x[j], j drawn below i + 1
FisherYates(x, i, r) ==
    IF i < 2 THEN x
    ELSE LET draw == NextRandom(r)
             j == 1 + (draw % i)
         IN  FisherYates([x EXCEPT ![i] = x[j], ![j] = x[i]], i - 1, draw)

\* The number of generator seeds the shuffles range over
MaxSeed == 6

\* The outcomes of random.shuffle(x) considered
ShuffleOutcomes(x) == {FisherYates(x, Len(x), seed) : seed \in 1..MaxSeed}

(***************************************************************************)
(* sortear_times: players.json                                             *)
(***************************************************************************)
Quoted(chars) == <<QUOTE>> \o chars \o <<QUOTE>>
Field(key, valueText) == Quoted(key) \o <<":">> \o valueText

Object(fields) == <<"{">> \o JoinWith(fields, <<",">>) \o <<"}">>

\* The contents of players.json the draw is run on:
\*   "vazio"        an empty file: the four looked-up names get their defaults
\*   "meias"        Luiz Kelvin and Nilson are found, as Meia and Volante
\*   "pontas"       Adelson is found as Ponta direita, Luan as Goleiro
\*   "lista"        [1]: the whole text is a list whose element is no mapping
\*   "nome_numero"  {"fullName":5}: a record whose fullName is no string
FileNames == {"vazio", "meias", "pontas", "lista", "nome_numero"}

FileContent(f) ==
    CASE f = "vazio" -> <<>>
      [] f = "meias" ->
            Object(<<Field(KeyFullName,
                           Quoted(NameChars("Luiz Kelvin") \o <<" ", "S", "o", "u", "z", "a">>)),
                     Field(KeyPosition, Quoted(<<"M", "e", "i", "a">>))>>)
            \o <<NEWLINE>> \o
            Object(<<Field(KeyFullName, Quoted(NameChars("Nilson"))),
                     Field(KeyPrizeDrawPosition, Quoted(<<"V", "o", "l", "a", "n", "t", "e">>)),
                     Field(KeyPosition, Quoted(<<"A", "t", "a", "c", "a", "n", "t", "e">>))>>)
      [] f = "pontas" ->
            Object(<<Field(KeyFullName, Quoted(NameChars("Adelson"))),
                     Field(KeyPosition,
                           Quoted(<<"P", "o", "n", "t", "a", " ", "d", "i", "r", "e", "i", "t", "a">>))>>)
            \o <<NEWLINE>> \o
            Object(<<Field(KeyFullName, Quoted(NameChars("Luan"))),
                     Field(KeyPosition, Quoted(<<"G", "o", "l", "e", "i", "r", "o">>))>>)
      [] f = "lista" -> <<"[", "1", "]">>
      [] f = "nome_numero" -> Object(<<Field(KeyFullName, <<"5">>)>>)

(***************************************************************************)
(* sortear_times: the steps as operators                                   *)
(***************************************************************************)
\* The position a looked-up name gets (lines 240-251); "" when the lookup
\* raised
PosicaoBuscada(nome, players) ==
    LET posicao == buscar_posicao_jogador(NameChars(nome), players)
    IN  IF posicao.raised THEN ""
        ELSE IF posicao.found /\ posicao.s # <<>> THEN normalizar_posicao(posicao.s)
        ELSE IF Contains(NameChars(nome), <<"L", "u", "i", "z">>) THEN "ZAG"
        ELSE IF nome = "Adelson" THEN "MEI"
        ELSE "ATA"

\* jogadores_com_posicao after the lookups
PosicoesResolvidas(players) ==
    [nome \in DOMAIN PosicoesConhecidas |->
        IF nome \in Members(jogadores_sem_posicao)
        THEN PosicaoBuscada(nome, players)
        ELSE PosicoesConhecidas[nome]]

\* jogadores_com_posicao.get(nome, 'ATA')
PosicaoOuATA(posicoes, nome) ==
    IF nome \in DOMAIN posicoes THEN posicoes[nome] ELSE "ATA"

\* The names of lista whose position is code, in order (lines 276-283:
\* whatever is neither ZAG nor MEI goes with the atacantes)
DaPosicao(lista, posicoes, code) ==
    Filter(lista, {nome \in Members(lista) :
                      IF code = "ATA"
                      THEN PosicaoOuATA(posicoes, nome) \notin {"ZAG", "MEI"}
                      ELSE PosicaoOuATA(posicoes, nome) = code})

\* The first n entries of a list, fewer when it is shorter, and the rest
Take(s, n) == SubSeq(s, 1, IF Len(s) < n THEN Len(s) ELSE n)
Drop(s, n) == SubSeq(s, (IF Len(s) < n THEN Len(s) ELSE n) + 1, Len(s))

RECURSIVE DistribuiPorQuota(_, _, _, _, _)
\* for i in range(4): two zagueiros, one meia, two atacantes popped from the
\* front, a slot skipped when its list is empty (lines 294-309, 408-421)
DistribuiPorQuota(i, ts, zs, ms, as) ==
    IF i > 4 THEN [times |-> ts, zagueiros |-> zs, meias |-> ms, atacantes |-> as]
    ELSE DistribuiPorQuota(i + 1,
             [ts EXCEPT ![i] = ts[i] \o Take(zs, 2) \o Take(ms, 1) \o Take(as, 2)],
             Drop(zs, 2), Drop(ms, 1), Drop(as, 2))

\* The teams left as the quota fill made them
SemPreencher(i, ts, restantes) == [times |-> ts, todos_restantes |-> restantes]

RECURSIVE PreencheAteCinco(_, _, _)
\* for i in range(4): while len(times[i]) < 5 and todos_restantes (314-316)
PreencheAteCinco(i, ts, restantes) ==
    IF i > 4 THEN [times |-> ts, todos_restantes |-> restantes]
    ELSE LET falta == IF Len(ts[i]) < 5 THEN 5 - Len(ts[i]) ELSE 0
         IN  PreencheAteCinco(i + 1,
                 [ts EXCEPT ![i] = ts[i] \o Take(restantes, falta)],
                 Drop(restantes, falta))

\* The entries of a list in reverse order
Reverse(s) == [k \in 1..Len(s) |-> s[Len(s) + 1 - k]]

RECURSIVE DevolveExtras(_, _, _)
\* for i in range(4): while len(times[i]) > 5: the last one goes back to
\* todos_restantes (lines 320-322)
DevolveExtras(i, ts, restantes) ==
    IF i > 4 THEN [times |-> ts, todos_restantes |-> restantes]
    ELSE IF Len(ts[i]) > 5
         THEN DevolveExtras(i + 1, [ts EXCEPT ![i] = Take(ts[i], 5)],
                            restantes \o Reverse(Drop(ts[i], 5)))
         ELSE DevolveExtras(i + 1, ts, restantes)

\* jogadores_restritos_no_time (lines 335-340)
RestritosNoTime(time) == Filter(time, {j \in Members(time) : EhRestrito(j)})

\* The teams the scan of line 333 finds with more than one restricted member
TimesEmViolacao(ts) == {idx \in 1..Len(ts) : Len(RestritosNoTime(ts[idx])) > 1}

\* A destination chosen without looking at how many players a team holds
SemOlharTamanho(ts, idx) == Min({o \in 1..Len(ts) : o # idx})

\* The team a moved player is appended to, 0 when there is none: the first
\* other team without a restricted member and with room (lines 349-355),
\* else the first other team with room (lines 358-362)
TimeDeDestino(ts, idx) ==
    LET livres == {o \in 1..Len(ts) :
                      o # idx /\ RestritosNoTime(ts[o]) = <<>> /\ Len(ts[o]) < 5}
        com_espaco == {o \in 1..Len(ts) : o # idx /\ Len(ts[o]) < 5}
    IN  IF livres # {} THEN CHOOSE o \in livres : \A q \in livres : o <= q
        ELSE IF com_espaco # {}
             THEN CHOOSE o \in com_espaco : \A q \in com_espaco : o <= q
        ELSE 0

\* One attempt that finds a violation (lines 341-363): in the first team in
\* violation the first restricted member is removed and appended to the
\* team of destination, if there is one
MoveRestrito(ts) ==
    LET idx == CHOOSE i \in TimesEmViolacao(ts) : \A q \in TimesEmViolacao(ts) : i <= q
        jogador_para_mover == RestritosNoTime(ts[idx])[1]
        sem == [ts EXCEPT ![idx] = RemoveFirst(ts[idx], jogador_para_mover)]
        destino == TimeDeDestino(sem, idx)
    IN  IF destino = 0 THEN sem
        ELSE [sem EXCEPT ![destino] = Append(sem[destino], jogador_para_mover)]

\* any(j in t for t in times)
EmAlgumTime(ts, j) == \E i \in 1..Len(ts) : j \in Members(ts[i])

\* jogadores_restritos_restantes before its shuffle (lines 373-381)
RestritosRestantes(ts) ==
    Filter(grupo_restrito, {j \in Members(grupo_restrito) : EmAlgumTime(ts, j)})
    \o Filter(<<"Matheus Tavares">>,
              {j \in DOMAIN nome_alternativo :
                  nome_alternativo[j] \in Members(grupo_restrito) /\ EmAlgumTime(ts, j)})

\* The teams without the restricted members (line 386)
SemRestritos(ts) ==
    [i \in 1..Len(ts) |->
        Filter(ts[i], {j \in Members(ts[i]) :
                          j \notin Members(grupo_restrito) /\ j \notin DOMAIN nome_alternativo})]

\* One restricted member appended to each of the first teams (lines 389-390)
UmRestritoPorTime(ts, restritos) ==
    [i \in 1..Len(ts) |->
        IF i <= Len(Take(restritos, 4)) THEN Append(ts[i], restritos[i]) ELSE ts[i]]

\* The lists of a list of lists, one after the other (lines 393-396)
Concat(ts) == JoinWith(ts, <<>>)

\* [j for j in lista if jogadores_com_posicao.get(j) == code] (lines 399-401)
DaPosicaoExata(lista, posicoes, code) ==
    Filter(lista, {j \in Members(lista) : j \in DOMAIN posicoes /\ posicoes[j] = code})

QuatroTimesVazios == <<<<>>, <<>>, <<>>, <<>>>>

\* A time_5 that is not filtered by the teams: every name of todos
TodosNoTime5(todos, ts) == todos

\* time_5 (lines 424-428)
Time5(todos, ts) ==
    Filter(todos, {j \in Members(todos) : ~EmAlgumTime(ts, j)})

\* The position the result gives a member of time_5 (lines 453-459)
PosicaoDoTime5(jogador, posicoes, players) ==
    IF jogador \in DOMAIN posicoes THEN posicoes[jogador]
    ELSE LET posicao == buscar_posicao_jogador(NameChars(jogador), players)
         IN  IF posicao.raised THEN ""
             ELSE IF posicao.found /\ posicao.s # <<>> THEN normalizar_posicao(posicao.s)
             ELSE "ATA"

\* resultado (lines 431-459)
Resultado(ts, todos, posicoes, players) ==
    [keys |-> {"times", "time_5", "posicoes"},
     times |-> [i \in 1..Len(ts) |->
                   [numero |-> i,
                    jogadores |-> ts[i],
                    posicoes |-> [j \in Members(ts[i]) |-> PosicaoOuATA(posicoes, j)]]],
     time_5 |-> Time5(todos, ts),
     posicoes |-> [j \in Members(Concat(ts)) \cup Members(Time5(todos, ts)) |->
                      IF EmAlgumTime(ts, j) THEN PosicaoOuATA(posicoes, j)
                      ELSE PosicaoDoTime5(j, posicoes, players)]]

\* An error payload that carries the roster keys too
ErroComRoster ==
    [keys |-> {"erro", "times", "time_5", "posicoes"},
     times |-> <<>>, time_5 |-> <<>>, posicoes |-> <<>>]

\* {'erro': ...} (line 205)
ResultadoErro ==
    [keys |-> {"erro"}, times |-> <<>>, time_5 |-> <<>>, posicoes |-> <<>>]

SemResultado == [keys |-> {}, times |-> <<>>, time_5 |-> <<>>, posicoes |-> <<>>]

(***************************************************************************)
(* State                                                                   *)
(***************************************************************************)
VARIABLES
    pc,                     \* where sortear_times is
    file,                   \* the content of players.json ("" before it is read)
    players,                \* sortear_times: the parsed records
    jogadores_com_posicao,  \* name -> code
    todos_jogadores,
    zagueiros, meias, atacantes,
    times,                  \* the 4 teams
    todos_restantes,
    tentativa,
    redistribuicoes,        \* how many times the branch of line 371 ran
    resultado,              \* what sortear_times returned
    input,                  \* parse_mongodb_json: the shape of its argument
    parser,                 \* parse_mongodb_json: its locals and where it is
    consulta,               \* a call of buscar_posicao_jogador or normalizar_posicao
    ranking                 \* extrair_awards_jogadores: its locals and where it is

sorteio_vars ==
    <<pc, file, players, jogadores_com_posicao, todos_jogadores, zagueiros,
      meias, atacantes, times, todos_restantes, tentativa, redistribuicoes,
      resultado>>
parser_vars == <<input, parser>>
outros_vars == <<consulta, ranking>>
vars == <<sorteio_vars, parser_vars, outros_vars>>

\* parse_mongodb_json not called
ParserIdle ==
    [pc |-> "idle", content |-> <<>>, lines |-> <<>>, next |-> 0,
     current_obj_lines |-> <<>>, depth |-> 0, in_string |-> FALSE,
     escape_next |-> FALSE, players |-> <<>>]

\* Neither buscar_posicao_jogador nor normalizar_posicao called on its own
ConsultaIdle ==
    [pc |-> "idle", nome |-> <<>>, players |-> <<>>, rotulo |-> <<>>,
     posicao |-> [raised |-> FALSE, found |-> FALSE, s |-> <<>>], codigo |-> ""]

\* extrair_awards_jogadores not called
RankingIdle ==
    [pc |-> "idle", players |-> <<>>, next |-> 0, dados_por_jogador |-> <<>>,
     dados_por_goleiro |-> <<>>, imagens_jogadores |-> <<>>,
     nomes_todos_jogadores |-> {}, categorias |-> <<>>,
     nomes_todos_jogadores_lista |-> <<>>]

\* sortear_times not called
SorteioIdle(at) ==
    /\ pc = at
    /\ file = ""
    /\ players = <<>>
    /\ jogadores_com_posicao = <<>>
    /\ todos_jogadores = <<>>
    /\ zagueiros = <<>>
    /\ meias = <<>>
    /\ atacantes = <<>>
    /\ times = <<>>
    /\ todos_restantes = <<>>
    /\ tentativa = 0
    /\ redistribuicoes = 0
    /\ resultado = SemResultado

(***************************************************************************)
(* sortear_times                                                           *)
(***************************************************************************)
InitSorteio ==
    /\ SorteioIdle("carrega")
    /\ input = <<>>
    /\ parser = ParserIdle
    /\ consulta = ConsultaIdle
    /\ ranking = RankingIdle

\* Lines 200-205, open or read fails: the error payload is returned
LeituraFalha ==
    /\ pc = "carrega"
    /\ pc' = "done"
    /\ resultado' = ResultadoErro
    /\ UNCHANGED <<file, players, jogadores_com_posicao, todos_jogadores,
                   zagueiros, meias, atacantes, times, todos_restantes,
                   tentativa, redistribuicoes, parser_vars, outros_vars>>

\* Lines 200-203: the file is read and parsed
CarregaPlayers ==
    /\ pc = "carrega"
    /\ \E f \in FileNames :
          /\ file' = f
          /\ players' = ParseMongodbJson(FileContent(f))
    /\ pc' = "busca"
    /\ UNCHANGED <<jogadores_com_posicao, todos_jogadores, zagueiros, meias,
                   atacantes, times, todos_restantes, tentativa,
                   redistribuicoes, resultado, parser_vars, outros_vars>>

\* Lines 207-251: the table and the four lookups; an exception of a lookup
\* leaves sortear_times
BuscaPosicoes ==
    /\ pc = "busca"
    /\ LET posicoes == PosicoesResolvidas(players)
       IN  IF \E nome \in Members(jogadores_sem_posicao) : posicoes[nome] = ""
           THEN pc' = "raised" /\ UNCHANGED jogadores_com_posicao
           ELSE pc' = "separa" /\ jogadores_com_posicao' = posicoes
    /\ UNCHANGED <<file, players, todos_jogadores, zagueiros, meias, atacantes,
                   times, todos_restantes, tentativa, redistribuicoes,
                   resultado, parser_vars, outros_vars>>

\* Lines 253-283: the roster and the three lists by position
SeparaPorPosicao ==
    /\ pc = "separa"
    /\ todos_jogadores' = Roster
    /\ zagueiros' = DaPosicao(Roster, jogadores_com_posicao, "ZAG")
    /\ meias' = DaPosicao(Roster, jogadores_com_posicao, "MEI")
    /\ atacantes' = DaPosicao(Roster, jogadores_com_posicao, "ATA")
    /\ pc' = "embaralha"
    /\ UNCHANGED <<file, players, jogadores_com_posicao, times, todos_restantes,
                   tentativa, redistribuicoes, resultado, parser_vars, outros_vars>>

\* Lines 286-288: the three shuffles
Embaralha ==
    /\ pc = "embaralha"
    /\ zagueiros' \in ShuffleOutcomes(zagueiros)
    /\ meias' \in ShuffleOutcomes(meias)
    /\ atacantes' \in ShuffleOutcomes(atacantes)
    /\ pc' = "distribui"
    /\ UNCHANGED <<file, players, jogadores_com_posicao, todos_jogadores, times,
                   todos_restantes, tentativa, redistribuicoes, resultado,
                   parser_vars, outros_vars>>

\* Lines 291-309: the quota fill
DistribuiTimes ==
    /\ pc = "distribui"
    /\ LET d == DistribuiPorQuota(1, QuatroTimesVazios, zagueiros, meias, atacantes)
       IN  /\ times' = d.times
           /\ zagueiros' = d.zagueiros
           /\ meias' = d.meias
           /\ atacantes' = d.atacantes
    /\ pc' = "preenche"
    /\ UNCHANGED <<file, players, jogadores_com_posicao, todos_jogadores,
                   todos_restantes, tentativa, redistribuicoes, resultado,
                   parser_vars, outros_vars>>

\* Lines 312-316: the teams short of 5 take from what is left
PreencheRestantes ==
    /\ pc = "preenche"
    /\ LET d == PreencheAteCinco(1, times, zagueiros \o meias \o atacantes)
       IN  /\ times' = d.times
           /\ todos_restantes' = d.todos_restantes
    /\ pc' = "garante"
    /\ UNCHANGED <<file, players, jogadores_com_posicao, todos_jogadores,
                   zagueiros, meias, atacantes, tentativa, redistribuicoes,
                   resultado, parser_vars, outros_vars>>

\* Lines 320-327: the teams over 5 give back; the attempts start at 0
GaranteCinco ==
    /\ pc = "garante"
    /\ LET d == DevolveExtras(1, times, todos_restantes)
       IN  /\ times' = d.times
           /\ todos_restantes' = d.todos_restantes
    /\ tentativa' = 0
    /\ pc' = "corrige"
    /\ UNCHANGED <<file, players, jogadores_com_posicao, todos_jogadores,
                   zagueiros, meias, atacantes, redistribuicoes, resultado,
                   parser_vars, outros_vars>>

\* Lines 329-368, an iteration whose scan finds a violation: one move
CorrigeRestricao ==
    /\ pc = "corrige"
    /\ DentroDoLimite(tentativa)
    /\ TimesEmViolacao(times) # {}
    /\ times' = MoveRestrito(times)
    /\ tentativa' = tentativa + 1
    /\ UNCHANGED <<pc, file, players, jogadores_com_posicao, todos_jogadores,
                   zagueiros, meias, atacantes, todos_restantes,
                   redistribuicoes, resultado, parser_vars, outros_vars>>

\* Lines 329 and 365-366: the loop ends, by a scan without violation or by
\* the attempts running out
SaiDaCorrecao ==
    /\ pc = "corrige"
    /\ ~DentroDoLimite(tentativa) \/ TimesEmViolacao(times) = {}
    /\ pc' = "apos_correcao"
    /\ UNCHANGED <<file, players, jogadores_com_posicao, todos_jogadores,
                   zagueiros, meias, atacantes, times, todos_restantes,
                   tentativa, redistribuicoes, resultado, parser_vars, outros_vars>>

\* Lines 371-390: the attempts ran out; the restricted members in the teams
\* are taken out, shuffled, and one is appended to each of the first teams
RedistribuiRestritos ==
    /\ pc = "apos_correcao"
    /\ Esgotou(tentativa)
    /\ \E restritos \in ShuffleOutcomes(RestritosRestantes(times)) :
          times' = UmRestritoPorTime(SemRestritos(times), restritos)
    /\ redistribuicoes' = redistribuicoes + 1
    /\ pc' = "refaz"
    /\ UNCHANGED <<file, players, jogadores_com_posicao, todos_jogadores,
                   zagueiros, meias, atacantes, todos_restantes, tentativa,
                   resultado, parser_vars, outros_vars>>

\* Lines 392-421: the teams are pooled into todos_jogadores and cleared, and
\* filled again by the quota from the shuffled lists of each position
RefazTimes ==
    /\ pc = "refaz"
    /\ LET todos == Concat(times)
       IN  /\ todos_jogadores' = todos
           /\ \E zs \in ShuffleOutcomes(DaPosicaoExata(todos, jogadores_com_posicao, "ZAG")),
                 ms \in ShuffleOutcomes(DaPosicaoExata(todos, jogadores_com_posicao, "MEI")),
                 as \in ShuffleOutcomes(DaPosicaoExata(todos, jogadores_com_posicao, "ATA")) :
                 times' = DistribuiPorQuota(1, QuatroTimesVazios, zs, ms, as).times
    /\ pc' = "monta"
    /\ UNCHANGED <<file, players, jogadores_com_posicao, zagueiros, meias,
                   atacantes, todos_restantes, tentativa, redistribuicoes,
                   resultado, parser_vars, outros_vars>>

\* Line 371, the condition false
SemRedistribuicao ==
    /\ pc = "apos_correcao"
    /\ ~Esgotou(tentativa)
    /\ pc' = "monta"
    /\ UNCHANGED <<file, players, jogadores_com_posicao, todos_jogadores,
                   zagueiros, meias, atacantes, times, todos_restantes,
                   tentativa, redistribuicoes, resultado, parser_vars, outros_vars>>

\* Lines 423-461: time_5, the payload and the return
MontaResultado ==
    /\ pc = "monta"
    /\ LET r == Resultado(times, todos_jogadores, jogadores_com_posicao, players)
       IN  IF \E j \in DOMAIN r.posicoes : r.posicoes[j] = ""
           THEN pc' = "raised" /\ UNCHANGED resultado
           ELSE pc' = "done" /\ resultado' = r
    /\ UNCHANGED <<file, players, jogadores_com_posicao, todos_jogadores,
                   zagueiros, meias, atacantes, times, todos_restantes,
                   tentativa, redistribuicoes, parser_vars, outros_vars>>

NextSorteio ==
    \/ LeituraFalha
    \/ CarregaPlayers
    \/ BuscaPosicoes
    \/ SeparaPorPosicao
    \/ Embaralha
    \/ DistribuiTimes
    \/ PreencheRestantes
    \/ GaranteCinco
    \/ CorrigeRestricao
    \/ SaiDaCorrecao
    \/ RedistribuiRestritos
    \/ RefazTimes
    \/ SemRedistribuicao
    \/ MontaResultado

SpecSorteio == InitSorteio /\ [][NextSorteio]_vars

(***************************************************************************)
(* sortear_times called again and again                                    *)
(***************************************************************************)
\* New calls are made while no more than this many redistributions ran
MaxRedistribuicoes == 1

\* A local that keeps what the call before bound to it, as a name of the
\* module would
LocalHerdado(anterior, vazio) == anterior

\* A local of a call that starts (line 179): of the frame of that call,
\* unbound whatever the call before bound to it
LocalDaChamada(anterior, vazio) == vazio

\* sortear_times has returned or raised and the route calls it again
\* (lines 464-473): redistribuicoes goes on counting
NovaChamada ==
    /\ pc \in {"done", "raised"}
    /\ redistribuicoes <= MaxRedistribuicoes
    /\ pc' = "carrega"
    /\ file' = ""
    /\ players' = LocalDaChamada(players, <<>>)
    /\ jogadores_com_posicao' = LocalDaChamada(jogadores_com_posicao, <<>>)
    /\ todos_jogadores' = LocalDaChamada(todos_jogadores, <<>>)
    /\ zagueiros' = LocalDaChamada(zagueiros, <<>>)
    /\ meias' = LocalDaChamada(meias, <<>>)
    /\ atacantes' = LocalDaChamada(atacantes, <<>>)
    /\ times' = LocalDaChamada(times, <<>>)
    /\ todos_restantes' = LocalDaChamada(todos_restantes, <<>>)
    /\ tentativa' = LocalDaChamada(tentativa, 0)
    /\ resultado' = SemResultado
    /\ UNCHANGED <<redistribuicoes, parser_vars, outros_vars>>

NextChamadas ==
    \/ NextSorteio
    \/ NovaChamada

SpecChamadas == InitSorteio /\ [][NextChamadas]_vars

(***************************************************************************)
(* sortear_times from the lookups to the repair loop, on every table the   *)
(* lookups can give                                                        *)
(***************************************************************************)
\* What normalizar_posicao returns
CodigosDePosicao == {"ZAG", "MEI", "ATA"}

\* jogadores_com_posicao after lines 236-251, for every position the four
\* looked-up names can be given
PosicoesPossiveis ==
    {[nome \in DOMAIN PosicoesConhecidas |->
         IF nome \in Members(jogadores_sem_posicao) THEN buscadas[nome]
         ELSE PosicoesConhecidas[nome]] :
       buscadas \in [Members(jogadores_sem_posicao) -> CodigosDePosicao]}

\* Line 253 is reached with one of the tables; players.json, whatever it
\* held, is not looked at again before the repair loop
InitQuota ==
    /\ pc = "separa"
    /\ file = ""
    /\ players = <<>>
    /\ jogadores_com_posicao \in PosicoesPossiveis
    /\ todos_jogadores = <<>>
    /\ zagueiros = <<>>
    /\ meias = <<>>
    /\ atacantes = <<>>
    /\ times = <<>>
    /\ todos_restantes = <<>>
    /\ tentativa = 0
    /\ redistribuicoes = 0
    /\ resultado = SemResultado
    /\ input = <<>>
    /\ parser = ParserIdle
    /\ consulta = ConsultaIdle
    /\ ranking = RankingIdle

NextQuota ==
    \/ SeparaPorPosicao
    \/ Embaralha
    \/ DistribuiTimes
    \/ PreencheRestantes
    \/ GaranteCinco

SpecQuota == InitQuota /\ [][NextQuota]_vars

(***************************************************************************)
(* parse_mongodb_json, step by step, on texts built from pieces            *)
(***************************************************************************)
\* The most pieces a text is made of
MaxPieces == 2

\* The value of fullName in the piece at position k of a text
LetterOf(k) == <<<<"A">>, <<"B">>, <<"C">>, <<"D">>>>[k]

FieldFullName(k) == Field(KeyFullName, Quoted(LetterOf(k)))
FieldX == Field(<<"x">>, <<"1">>)

\* The pieces:
\*   "compacto"  {"fullName":"A"}                       an object on one line
\*   "linhas"    the same object over three lines
\*   "sem_nome"  {"x":1}                                an object without fullName
\*   "lista"     [{"x":1}]                              a list of such an object
\*   "aspas"     {"fullName":"A}                        an unbalanced quote
\*   "fecha"     {"x":1}}                               an unbalanced closing brace
\*   "mongo"     {"fullName":"A","i":ObjectId("x"),"n":NumberInt(5),"d":ISODate("y")}
\*   "chaves"    {"fullName":"A","s":"}[\"{"}           braces, brackets and an
\*                                                      escaped quote in a string
\*   "chaves_linhas"   the same object over four lines, the string on the third
\*   "mongo_negativo"  {"fullName":"A","n":NumberInt(-5)}
PieceKinds ==
    {"compacto", "linhas", "sem_nome", "lista", "aspas", "fecha", "mongo", "chaves",
     "chaves_linhas", "mongo_negativo"}

\* "s":"}[\"{"
FieldChaves == Field(<<"s">>, Quoted(<<"}", "[", BACKSLASH, QUOTE, "{">>))

PieceText(kind, k) ==
    CASE kind = "compacto" -> Object(<<FieldFullName(k)>>)
      [] kind = "linhas" -> <<"{", NEWLINE>> \o FieldFullName(k) \o <<NEWLINE, "}">>
      [] kind = "sem_nome" -> Object(<<FieldX>>)
      [] kind = "lista" -> <<"[">> \o Object(<<FieldX>>) \o <<"]">>
      [] kind = "aspas" -> <<"{">> \o Field(KeyFullName, <<QUOTE>> \o LetterOf(k)) \o <<"}">>
      [] kind = "fecha" -> Object(<<FieldX>>) \o <<"}">>
      [] kind = "mongo" ->
            Object(<<FieldFullName(k),
                     Field(<<"i">>, LitObjectId \o <<"(">> \o Quoted(<<"x">>) \o <<")">>),
                     Field(<<"n">>, LitNumberInt \o <<"(", "5", ")">>),
                     Field(<<"d">>, LitISODate \o <<"(">> \o Quoted(<<"y">>) \o <<")">>)>>)
      [] kind = "chaves" -> Object(<<FieldFullName(k), FieldChaves>>)
      [] kind = "chaves_linhas" ->
            <<"{", NEWLINE>> \o FieldFullName(k) \o <<",", NEWLINE>>
            \o FieldChaves \o <<NEWLINE, "}">>
      [] kind = "mongo_negativo" ->
            Object(<<FieldFullName(k),
                     Field(<<"n">>, LitNumberInt \o <<"(", "-", "5", ")">>)>>)

\* What stands between two pieces: nothing, a space, a line break
Separators == {"junto", "espaco", "linha"}

SeparatorText(sep) ==
    CASE sep = "junto" -> <<>>
      [] sep = "espaco" -> <<" ">>
      [] sep = "linha" -> <<NEWLINE>>

\* A text: its pieces and what separates each from the next
Inputs ==
    UNION {[kinds : [1..n -> PieceKinds], seps : [1..(n - 1) -> Separators]] :
               n \in 1..MaxPieces}

InputText(in) ==
    LET Piece(k) ==
            (IF k = 1 THEN <<>> ELSE SeparatorText(in.seps[k - 1]))
            \o PieceText(in.kinds[k], k)
    IN  JoinWith([k \in 1..Len(in.kinds) |-> Piece(k)], <<>>)

\* The record json.loads gives for the piece of a kind with fullName at
\* position k
RecordOf(kind, k) ==
    CASE kind \in {"compacto", "linhas"} ->
            JDict(<<Member(KeyFullName, JStr(LetterOf(k)))>>)
      [] kind = "mongo" ->
            JDict(<<Member(KeyFullName, JStr(LetterOf(k))),
                    Member(<<"i">>, JStr(<<"x">>)),
                    Member(<<"n">>, JNum(5)),
                    Member(<<"d">>, JStr(<<"y">>))>>)
      [] kind \in {"chaves", "chaves_linhas"} ->
            JDict(<<Member(KeyFullName, JStr(LetterOf(k))),
                    Member(<<"s">>, JStr(<<"}", "[", QUOTE, "{">>))>>)
      [] kind = "mongo_negativo" ->
            JDict(<<Member(KeyFullName, JStr(LetterOf(k))),
                    Member(<<"n">>, JNum(0 - 5))>>)

InitParse ==
    /\ SorteioIdle("idle")
    /\ input \in Inputs
    /\ parser = [ParserIdle EXCEPT !.pc = "start", !.content = InputText(input)]
    /\ consulta = ConsultaIdle
    /\ ranking = RankingIdle

\* Lines 26-40: the three rewrites, the split into lines, the counters
ParseStart ==
    /\ parser.pc = "start"
    /\ parser' = [parser EXCEPT
                     !.pc = "scan",
                     !.content = RemoveWrappers(parser.content),
                     !.lines = SplitLines(RemoveWrappers(parser.content)),
                     !.next = 1]
    /\ UNCHANGED <<sorteio_vars, input, outros_vars>>

\* The locals of the scan, as ScanLine takes and gives them
ScanState(p) ==
    [current_obj_lines |-> p.current_obj_lines, depth |-> p.depth,
     in_string |-> p.in_string, escape_next |-> p.escape_next,
     players |-> p.players]

\* Lines 42-44: a line outside any object and without "{" is passed over
ParseSkipLine ==
    /\ parser.pc = "scan"
    /\ parser.next <= Len(parser.lines)
    /\ parser.current_obj_lines = <<>>
    /\ ~Contains(parser.lines[parser.next], <<"{">>)
    /\ parser' = [parser EXCEPT !.next = parser.next + 1]
    /\ UNCHANGED <<sorteio_vars, input, outros_vars>>

\* Lines 46-78: a line is taken into the object, its characters counted and,
\* at depth 0, the object loaded
ParseScanLine ==
    /\ parser.pc = "scan"
    /\ parser.next <= Len(parser.lines)
    /\ parser.current_obj_lines # <<>> \/ Contains(parser.lines[parser.next], <<"{">>)
    /\ LET Scan(st) ==
               [parser EXCEPT
                   !.next = parser.next + 1,
                   !.current_obj_lines = st.current_obj_lines,
                   !.depth = st.depth,
                   !.in_string = st.in_string,
                   !.escape_next = st.escape_next,
                   !.players = st.players]
       IN  parser' = Scan(ScanLine(ScanState(parser), parser.lines[parser.next]))
    /\ UNCHANGED <<sorteio_vars, input, outros_vars>>

\* Lines 81-89: no record was collected, the whole text is loaded
ParseWholeText ==
    /\ parser.pc = "scan"
    /\ parser.next > Len(parser.lines)
    /\ parser.players = <<>>
    /\ parser' = [parser EXCEPT
                     !.pc = "done",
                     !.players = WholeTextFallback(parser.players, parser.content)]
    /\ UNCHANGED <<sorteio_vars, input, outros_vars>>

\* Lines 81 and 91: records were collected, they are returned
ParseReturn ==
    /\ parser.pc = "scan"
    /\ parser.next > Len(parser.lines)
    /\ parser.players # <<>>
    /\ parser' = [parser EXCEPT !.pc = "done"]
    /\ UNCHANGED <<sorteio_vars, input, outros_vars>>

NextParse ==
    \/ ParseStart
    \/ ParseSkipLine
    \/ ParseScanLine
    \/ ParseWholeText
    \/ ParseReturn

SpecParse == InitParse /\ [][NextParse]_vars

\* The steps give what the function gives when called at once
ParseStepsAgree ==
    parser.pc = "done" => parser.players = ParseMongodbJson(InputText(input))

(***************************************************************************)
(* buscar_posicao_jogador and normalizar_posicao, called on their own      *)
(***************************************************************************)
\* The most records in the list a name is looked up in
MaxFichas == 3

\* A record of players.json: fullName and position
Ficha(full_name, position) ==
    JDict(<<Member(KeyFullName, JStr(full_name)), Member(KeyPosition, JStr(position))>>)

\* The records the lists are made of; the position labels give four
\* different results (ZAG, ATA, MEI and the label itself)
Fichas ==
    {Ficha(<<"L", "u", "i", "z", " ", "K", "e", "l", "v", "i", "n">>, <<"Z", "a", "g", "u", "e", "i", "r", "o">>),
     Ficha(<<"L", "u", "i", "z">>, <<"A", "t", "a", "c", "a", "n", "t", "e">>),
     Ficha(<<"K", "e", "l", "v", "i", "n">>, <<"M", "e", "i", "a">>),
     Ficha(<<" ", "L", "U", "I", "Z", " ">>, <<"G", "o", "l", "e", "i", "r", "o">>)}

\* The names looked up
Consultas ==
    {<<"L", "u", "i", "z">>,
     <<" ", "l", "u", "i", "z", " ", "K", "E", "L", "V", "I", "N", " ">>,
     <<"K", "e", "l", "v", "i", "n">>,
     <<"K", "e", "l", " ", "L", "u", "i", "z">>,
     <<"K", "e", "l", "v", "i", "n", " ", "S", "i", "l", "v", "a">>,
     <<"L", "u", "a", "n">>}

\* The labels normalised
Rotulos ==
    {<<>>,
     <<" ">>,
     <<"Z", "a", "g", "u", "e", "i", "r", "o">>,
     <<"L", "A", "T", "E", "R", "A", "L", " ", "D", "i", "r", "e", "i", "t", "o">>,
     <<"M", "e", "i", "a">>,
     <<"V", "o", "l", "a", "n", "t", "e">>,
     <<"A", "t", "a", "c", "a", "n", "t", "e">>,
     <<"P", "o", "n", "t", "a">>,
     <<"G", "o", "l", "e", "i", "r", "o">>,
     <<"M", "e", "i", "a", " ", "L", "a", "t", "e", "r", "a", "l">>,
     <<"M", "e", "i", "a", " ", "A", "t", "a", "c", "a", "n", "t", "e">>,
     <<"P", "o", "n", "t", "a", " ", "V", "o", "l", "a", "n", "t", "e">>,
     <<"Z", "A", "G">>,
     <<"M", "E", "I">>}

ListasDeFichas == UNION {[1..n -> Fichas] : n \in 0..MaxFichas}

InitPosicao ==
    /\ SorteioIdle("idle")
    /\ input = <<>>
    /\ parser = ParserIdle
    /\ ranking = RankingIdle
    /\ \/ \E nome \in Consultas, fichas \in ListasDeFichas :
              consulta = [ConsultaIdle EXCEPT !.pc = "busca", !.nome = nome,
                                              !.players = fichas]
       \/ \E rotulo \in Rotulos :
              consulta = [ConsultaIdle EXCEPT !.pc = "normaliza", !.rotulo = rotulo]

\* posicao = buscar_posicao_jogador(nome, players)
ChamaBusca ==
    /\ consulta.pc = "busca"
    /\ consulta' = [consulta EXCEPT
                       !.pc = "buscado",
                       !.posicao = buscar_posicao_jogador(consulta.nome, consulta.players)]
    /\ UNCHANGED <<sorteio_vars, parser_vars, ranking>>

\* codigo = normalizar_posicao(rotulo)
ChamaNormaliza ==
    /\ consulta.pc = "normaliza"
    /\ consulta' = [consulta EXCEPT
                       !.pc = "normalizado",
                       !.codigo = normalizar_posicao(consulta.rotulo)]
    /\ UNCHANGED <<sorteio_vars, parser_vars, ranking>>

NextPosicao ==
    \/ ChamaBusca
    \/ ChamaNormaliza

SpecPosicao == InitPosicao /\ [][NextPosicao]_vars

(***************************************************************************)
(* extrair_awards_jogadores (src/gerar_ranking.py)                         *)
(*                                                                         *)
(* A Python dict is a sequence of records [k, v] in insertion order.  The  *)
(* records given hold strings under fullName, position, imagePlayer and    *)
(* teamCode and a mapping under awards.                                    *)
(***************************************************************************)
KeyTeamCode == <<"t", "e", "a", "m", "C", "o", "d", "e">>
KeyIncludedTeams ==
    <<"i", "n", "c", "l", "u", "d", "e", "d", "T", "e", "a", "m", "s">>
KeyAwards == <<"a", "w", "a", "r", "d", "s">>
KeyImagePlayer == <<"i", "m", "a", "g", "e", "P", "l", "a", "y", "e", "r">>
TotalAssistence ==
    <<"t", "o", "t", "a", "l", "A", "s", "s", "i", "s", "t", "e", "n", "c",
      "e">>
TotalGoals == <<"t", "o", "t", "a", "l", "G", "o", "a", "l", "s">>
TotalGamePlayed ==
    <<"t", "o", "t", "a", "l", "G", "a", "m", "e", "P", "l", "a", "y", "e",
      "d">>
TotalWins == <<"t", "o", "t", "a", "l", "W", "i", "n", "s">>
TotalDefeat == <<"t", "o", "t", "a", "l", "D", "e", "f", "e", "a", "t">>
TotalDraw == <<"t", "o", "t", "a", "l", "D", "r", "a", "w">>
Craque == <<"c", "r", "a", "q", "u", "e">>
Artilheiro == <<"a", "r", "t", "i", "l", "h", "e", "i", "r", "o">>
Garcom == <<"g", "a", "r", "c", "o", "m">>
Muralha == <<"m", "u", "r", "a", "l", "h", "a">>
Pereba == <<"p", "e", "r", "e", "b", "a">>
BolaMurcha == <<"b", "o", "l", "a", "M", "u", "r", "c", "h", "a">>
Xerifao == <<"x", "e", "r", "i", "f", "a", "o">>
SemNome == <<"S", "e", "m", " ", "n", "o", "m", "e">>
PrefixoGoleiro == <<"g", "o", "l", "e", "i", "r", "o", "_">>
Goleiro == <<"g", "o", "l", "e", "i", "r", "o">>
Http == <<"h", "t", "t", "p">>

campos_estatisticas_gerais == <<TotalAssistence, TotalGoals>>
campos_estatisticas_partidas == <<TotalGamePlayed, TotalWins, TotalDefeat, TotalDraw>>
campos_estatisticas_goleiros == <<TotalGamePlayed, TotalWins, TotalDefeat, TotalDraw>>
categorias_awards == <<Craque, Artilheiro, Garcom, Muralha, Pereba, BolaMurcha, Xerifao>>

\* The matches played of a name found in neither table (line 275)
PartidasPadrao == 999999

\* d.get(key, default), for a dict of json.loads
GetOr(d, key, default) == IF HasKey(d, key) THEN DictGet(d, key) ELSE default

\* key in m, m.get(key, default), for a dict kept as a sequence
TemChave(m, key) == \E i \in 1..Len(m) : m[i].k = key
Valor(m, key, default) ==
    IF TemChave(m, key) THEN m[CHOOSE i \in 1..Len(m) : m[i].k = key].v ELSE default

\* m[key] = val
Poe(m, key, val) ==
    IF TemChave(m, key)
    THEN [i \in 1..Len(m) |-> IF m[i].k = key THEN [k |-> key, v |-> val] ELSE m[i]]
    ELSE Append(m, [k |-> key, v |-> val])

\* dados_alvo[nome][categoria] += qtd, both defaultdicts
SomaEm(dados_alvo, nome, categoria, qtd) ==
    LET dados == Valor(dados_alvo, nome, <<>>)
    IN  Poe(dados_alvo, nome, Poe(dados, categoria, Valor(dados, categoria, 0) + qtd))

\* int(valor) under isinstance(valor, (int, str)): ok is FALSE when the
\* value is of another type or int raises ValueError.  A str is stripped
\* and may carry a sign.
IntDe(valor) ==
    IF valor.t \in {"num", "bool"} THEN [ok |-> TRUE, n |-> valor.n]
    ELSE IF valor.t = "str"
    THEN LET s == Strip(valor.s)
             sinal == s # <<>> /\ s[1] \in {"+", "-"}
             digitos == IF sinal THEN SubSeq(s, 2, Len(s)) ELSE s
         IN  IF digitos # <<>> /\ \A i \in 1..Len(digitos) : IsDigit(digitos[i])
             THEN [ok |-> TRUE,
                   n |-> IF sinal /\ s[1] = "-" THEN 0 - DigitsValue(digitos)
                         ELSE DigitsValue(digitos)]
             ELSE [ok |-> FALSE, n |-> 0]
    ELSE [ok |-> FALSE, n |-> 0]

\* The test with every integer let through
QualquerInteiro(qtd) == qtd.ok

\* if qtd > 0, after int(valor) went through
Positivo(qtd) == qtd.ok /\ qtd.n > 0

\* The body of the three loops of lines 196-226
Acumula(dados_alvo, nome, categoria, valor) ==
    LET Soma(qtd) ==
            IF Positivo(qtd) THEN SomaEm(dados_alvo, nome, categoria, qtd.n)
            ELSE dados_alvo
    IN  Soma(IntDe(valor))

\* player.get('fullName', 'Sem nome').strip()
NomeDe(player) == Strip(GetOr(player, KeyFullName, JStr(SemNome)).s)

\* 'goleiro' in player.get('position', '').lower()
EhGoleiro(player) == Contains(Lower(GetOr(player, KeyPosition, JStr(<<>>)).s), Goleiro)

\* player.get('teamCode', '').strip()
CodigoDe(player) == Strip(GetOr(player, KeyTeamCode, JStr(<<>>)).s)

\* The entries of includedTeams, whatever their teamCode
TimesQuaisquer(player) ==
    LET included_teams == GetOr(player, KeyIncludedTeams, JList(<<>>))
    IN  IF IsList(included_teams)
        THEN {i \in 1..Len(included_teams.kv) : IsDict(included_teams.kv[i].v)}
        ELSE {}

\* The indexes in includedTeams of the entries whose teamCode is the
\* player's own (lines 184-190)
TimesDoJogador(player) ==
    LET included_teams == GetOr(player, KeyIncludedTeams, JList(<<>>))
    IN  IF IsList(included_teams) /\ CodigoDe(player) # <<>>
        THEN {i \in 1..Len(included_teams.kv) :
                 /\ IsDict(included_teams.kv[i].v)
                 /\ Strip(GetOr(included_teams.kv[i].v, KeyTeamCode, JStr(<<>>)).s)
                        = CodigoDe(player)}
        ELSE {}

\* team_data when the loop has found one: the first of them
TeamData(player) == GetOr(player, KeyIncludedTeams, JList(<<>>)).kv[Min(TimesDoJogador(player))].v

\* Lines 193-226: the awards, the general fields and the match fields of
\* team_data added to the player's counters
SomaDoTime(dados_alvo, nome, team_data, campos_partidas) ==
    LET Award(d, member) == Acumula(d, nome, member.k, member.v)
        Campo(d, campo) == Acumula(d, nome, campo, GetOr(team_data, campo, JNum(0)))
        awards_team == GetOr(team_data, KeyAwards, JDict(<<>>)).kv
        Partidas(d) == FoldLeft(Campo, d, campos_partidas, 1, Len(campos_partidas))
        Gerais(d) ==
            Partidas(FoldLeft(Campo, d, campos_estatisticas_gerais, 1,
                              Len(campos_estatisticas_gerais)))
    IN  Gerais(FoldLeft(Award, dados_alvo, awards_team, 1, Len(awards_team)))

\* if nome and nome != 'Sem nome'
NomeContado(nome) == nome # <<>> /\ nome # SemNome

\* One iteration of "for player in players" (lines 160-226)
ProcessaJogador(r, player) ==
    LET nome == NomeDe(player)
        image_url == Strip(GetOr(player, KeyImagePlayer, JStr(<<>>)).s)
        Dados(dados_alvo, campos_partidas) ==
            IF TimesDoJogador(player) # {}
            THEN SomaDoTime(dados_alvo, nome, TeamData(player), campos_partidas)
            ELSE dados_alvo
    IN  [r EXCEPT
            !.nomes_todos_jogadores =
                IF NomeContado(nome) THEN @ \cup {nome} ELSE @,
            !.imagens_jogadores =
                IF /\ image_url # <<>>
                   /\ StartsWith(image_url, Http)
                   /\ ~TemChave(@, nome)
                THEN Append(@, [k |-> nome, v |-> image_url])
                ELSE @,
            !.dados_por_jogador =
                IF EhGoleiro(player) THEN @
                ELSE Dados(@, campos_estatisticas_partidas),
            !.dados_por_goleiro =
                IF EhGoleiro(player) THEN Dados(@, campos_estatisticas_goleiros)
                ELSE @]

\* Lines 230-243: nome -> (vitorias, partidas), for one of the two tables
DadosCompletos(tabela) ==
    [i \in 1..Len(tabela) |->
        [k |-> tabela[i].k,
         v |-> [vitorias |-> Valor(tabela[i].v, TotalWins, 0),
                partidas |-> Valor(tabela[i].v, TotalGamePlayed, 0)]]]

\* categorias[categoria].append(item)
Anexa(categorias, categoria, item) ==
    Poe(categorias, categoria, Append(Valor(categorias, categoria, <<>>), item))

\* The items of a table as one sequence of [nome, categoria, total], in
\* the order the two loops of lines 249-252 and 255-267 meet them
Itens(tabela) ==
    Concat([i \in 1..Len(tabela) |->
               [j \in 1..Len(tabela[i].v) |->
                   [nome |-> tabela[i].k, categoria |-> tabela[i].v[j].k,
                    total |-> tabela[i].v[j].v]]])

\* No award of a goalkeeper left out
NenhumAwardIgnorado(categoria) == FALSE

\* if categoria in categorias_awards: continue
AwardIgnorado(categoria) == categoria \in Members(categorias_awards)

\* The key without the prefix
SemPrefixo(categoria) == categoria

\* The key a goalkeeper's category goes under (lines 262-266)
CategoriaDoGoleiro(categoria) ==
    IF categoria \in Members(campos_estatisticas_goleiros)
    THEN PrefixoGoleiro \o categoria
    ELSE categoria

\* Lines 246-267: the rankings before they are sorted
Agrupa(dados_por_jogador, dados_por_goleiro) ==
    LET DoJogador(categorias, item) ==
            IF item.total > 0
            THEN Anexa(categorias, item.categoria,
                       [nome |-> item.nome, total |-> item.total])
            ELSE categorias
        DoGoleiro(categorias, item) ==
            IF item.total > 0 /\ ~AwardIgnorado(item.categoria)
            THEN Anexa(categorias, CategoriaDoGoleiro(item.categoria),
                       [nome |-> item.nome, total |-> item.total])
            ELSE categorias
        Goleiros(categorias, itens) == FoldLeft(DoGoleiro, categorias, itens, 1, Len(itens))
        NaoGoleiros(itens) == FoldLeft(DoJogador, <<>>, itens, 1, Len(itens))
    IN  Goleiros(NaoGoleiros(Itens(dados_por_jogador)), Itens(dados_por_goleiro))

\* dados_completos_jogadores.get(nome,
\*     dados_completos_goleiros.get(nome, (0, 999999)))
Desempate(nome, dados_por_jogador, dados_por_goleiro) ==
    Valor(DadosCompletos(dados_por_jogador), nome,
          Valor(DadosCompletos(dados_por_goleiro), nome,
                [vitorias |-> 0, partidas |-> PartidasPadrao]))

\* The key with the matches played not negated
ChaveSemNegar(item, desempate) == <<item.total, desempate.vitorias, desempate.partidas>>

\* chave_ordenacao(item), desempate being what line 275 looked up
chave_ordenacao(item, desempate) ==
    <<item.total, desempate.vitorias, 0 - desempate.partidas>>

\* a < b for two tuples of three integers, as Python compares tuples
TuplaMenor(a, b) ==
    \/ a[1] < b[1]
    \/ a[1] = b[1] /\ a[2] < b[2]
    \/ a[1] = b[1] /\ a[2] = b[2] /\ a[3] < b[3]

\* list.sort(key=chave_ordenacao, reverse=True): the greatest key first,
\* items of equal keys in the order they had
OrdenaLista(lista, dados_por_jogador, dados_por_goleiro) ==
    LET Chave(item) ==
            chave_ordenacao(item, Desempate(item.nome, dados_por_jogador, dados_por_goleiro))
        Insere(ordenada, item) ==
            LET antes == {i \in 1..Len(ordenada) :
                             ~TuplaMenor(Chave(ordenada[i]), Chave(item))}
            IN  SubSeq(ordenada, 1, Cardinality(antes)) \o <<item>>
                \o SubSeq(ordenada, Cardinality(antes) + 1, Len(ordenada))
    IN  FoldLeft(Insere, <<>>, lista, 1, Len(lista))

\* for categoria in categorias: categorias[categoria].sort(...) (283-284)
OrdenaCategorias(categorias, dados_por_jogador, dados_por_goleiro) ==
    [c \in 1..Len(categorias) |->
        [k |-> categorias[c].k,
         v |-> OrdenaLista(categorias[c].v, dados_por_jogador, dados_por_goleiro)]]

\* The characters of the names, in code point order
Alfabeto == <<" ">> \o Digits \o UpperCase \o LowerCase \o <<"_">>
Codigo(c) == CHOOSE i \in 1..Len(Alfabeto) : Alfabeto[i] = c

\* a < b for two str
StrMenor(a, b) ==
    \E i \in 1..(Len(b)) :
        /\ i <= Len(a) + 1
        /\ SubSeq(a, 1, i - 1) = SubSeq(b, 1, i - 1)
        /\ (i = Len(a) + 1 \/ Codigo(a[i]) < Codigo(b[i]))

\* The names with the greatest first
OrdemInversa(nomes) ==
    LET Antes(nome) == Cardinality({outro \in nomes : StrMenor(nome, outro)}) + 1
    IN  [i \in 1..Cardinality(nomes) |-> CHOOSE nome \in nomes : Antes(nome) = i]

\* sorted(list(nomes_todos_jogadores))
Sorted(nomes) ==
    LET Antes(nome) == Cardinality({outro \in nomes : StrMenor(outro, nome)}) + 1
    IN  [i \in 1..Cardinality(nomes) |-> CHOOSE nome \in nomes : Antes(nome) = i]

(***************************************************************************)
(* extrair_awards_jogadores, step by step, on lists of records             *)
(***************************************************************************)
\* The most records in a list
MaxRegistros == 3

\* An entry of includedTeams
Time(team_code, total_goals, total_wins, total_game_played, craque) ==
    JDict(<<Member(KeyTeamCode, JStr(team_code)),
            Member(TotalGoals, total_goals),
            Member(TotalWins, total_wins),
            Member(TotalGamePlayed, total_game_played),
            Member(KeyAwards, JDict(<<Member(Craque, craque)>>))>>)

\* An entry with 9 everywhere: it belongs to another team, or comes after
\* the player's own
TimeAlheio(team_code) == Time(team_code, JNum(9), JNum(9), JNum(9), JNum(9))

\* The ways a record stands to its teams: teamCode and includedTeams
\*   "proprio"      the player's team alone, every value a positive int
\*   "outro_antes"  another team first, then the player's, then a second
\*                  entry of the player's team; codes to be stripped and a
\*                  numeric string
\*   "invalidos"    the player's team with a negative int, a word and a
\*                  numeric string
\*   "sem_time"     no entry of the player's team
\*   "sem_codigo"   the player without teamCode, an entry without teamCode
Situacoes == {"proprio", "outro_antes", "invalidos", "sem_time", "sem_codigo"}

CodigoNa(situacao) ==
    CASE situacao \in {"proprio", "invalidos", "sem_time"} -> <<"A">>
      [] situacao = "outro_antes" -> <<" ", "A">>
      [] situacao = "sem_codigo" -> <<>>

TimesNa(situacao) ==
    CASE situacao = "proprio" -> <<Time(<<"A">>, JNum(3), JNum(2), JNum(3), JNum(2))>>
      [] situacao = "outro_antes" ->
            <<TimeAlheio(<<"B">>),
              Time(<<"A", " ">>, JStr(<<"2">>), JNum(2), JNum(2), JNum(1)),
              TimeAlheio(<<"A">>)>>
      [] situacao = "invalidos" ->
            <<Time(<<"A">>, JNum(0 - 1), JStr(<<"x">>), JNum(2), JStr(<<"2">>))>>
      [] situacao = "sem_time" -> <<TimeAlheio(<<"B">>)>>
      [] situacao = "sem_codigo" -> <<TimeAlheio(<<>>)>>

\* A record with fullName
Registro(full_name, position, situacao) ==
    JDict(<<Member(KeyFullName, JStr(full_name)),
            Member(KeyPosition, JStr(position)),
            Member(KeyImagePlayer,
                   JStr(IF situacao = "proprio" THEN Http \o <<":", "a">> ELSE <<"x">>)),
            Member(KeyTeamCode, JStr(CodigoNa(situacao))),
            Member(KeyIncludedTeams,
                   JList([i \in 1..Len(TimesNa(situacao)) |->
                             Member(<<>>, TimesNa(situacao)[i])]))>>)

\* A record without fullName
RegistroSemNome ==
    JDict(<<Member(KeyPosition, JStr(<<"Z", "a", "g", "u", "e", "i", "r", "a">>)),
            Member(KeyTeamCode, JStr(<<"A">>)),
            Member(KeyIncludedTeams, JList(<<Member(<<>>, TimesNa("proprio")[1])>>))>>)

\* {"fullName":"Ana","position":"Zagueira","teamCode":"A",
\*  "includedTeams":[{"teamCode":"A","totalGoals":3,"awards":{"craque":2}}]}
RegistroAna ==
    JDict(<<Member(KeyFullName, JStr(<<"A", "n", "a">>)),
            Member(KeyPosition, JStr(<<"Z", "a", "g", "u", "e", "i", "r", "a">>)),
            Member(KeyTeamCode, JStr(<<"A">>)),
            Member(KeyIncludedTeams,
                   JList(<<Member(<<>>,
                       JDict(<<Member(KeyTeamCode, JStr(<<"A">>)),
                               Member(TotalGoals, JNum(3)),
                               Member(KeyAwards,
                                      JDict(<<Member(Craque, JNum(2))>>))>>))>>))>>)

\* The records the lists are made of
Registros ==
    {Registro(full_name, position, situacao) :
        full_name \in {<<"A", "n", "a">>, <<" ", "B", "i", "a", " ">>},
        position \in {<<"Z", "a", "g", "u", "e", "i", "r", "a">>, <<"G", "o", "l", "e", "i", "r", "o">>},
        situacao \in {"proprio", "outro_antes", "invalidos"}}
    \cup {Registro(full_name, <<"Z", "a", "g", "u", "e", "i", "r", "a">>, "proprio") : full_name \in {<<" ">>, SemNome}}
    \cup {Registro(<<"C", "i", "d">>, <<"Z", "a", "g", "u", "e", "i", "r", "a">>, situacao) : situacao \in {"sem_time", "sem_codigo"}}
    \cup {RegistroSemNome, RegistroAna}

ListasDeRegistros == UNION {[1..n -> Registros] : n \in 0..MaxRegistros}

InitRanking ==
    /\ SorteioIdle("idle")
    /\ input = <<>>
    /\ parser = ParserIdle
    /\ consulta = ConsultaIdle
    /\ \E registros \in ListasDeRegistros :
           ranking = [RankingIdle EXCEPT !.pc = "jogadores", !.players = registros,
                                         !.next = 1]

\* Lines 160-226: the next record is taken into the counters
RankingJogador ==
    /\ ranking.pc = "jogadores"
    /\ ranking.next <= Len(ranking.players)
    /\ ranking' = [ProcessaJogador(ranking, ranking.players[ranking.next])
                      EXCEPT !.next = ranking.next + 1]
    /\ UNCHANGED <<sorteio_vars, parser_vars, consulta>>

\* Lines 228-267: the counters are grouped by category
RankingAgrupa ==
    /\ ranking.pc = "jogadores"
    /\ ranking.next > Len(ranking.players)
    /\ ranking' = [ranking EXCEPT
                      !.pc = "ordena",
                      !.categorias = Agrupa(ranking.dados_por_jogador,
                                            ranking.dados_por_goleiro)]
    /\ UNCHANGED <<sorteio_vars, parser_vars, consulta>>

\* Lines 269-289: the rankings and the names are sorted and returned
RankingOrdena ==
    /\ ranking.pc = "ordena"
    /\ ranking' = [ranking EXCEPT
                      !.pc = "done",
                      !.categorias = OrdenaCategorias(ranking.categorias,
                                                      ranking.dados_por_jogador,
                                                      ranking.dados_por_goleiro),
                      !.nomes_todos_jogadores_lista =
                          Sorted(ranking.nomes_todos_jogadores)]
    /\ UNCHANGED <<sorteio_vars, parser_vars, consulta>>

NextRanking ==
    \/ RankingJogador
    \/ RankingAgrupa
    \/ RankingOrdena

SpecRanking == InitRanking /\ [][NextRanking]_vars

(***************************************************************************)
(* Properties of sortear_times                                             *)
(***************************************************************************)
\* sortear_times returned a roster payload
RetornouRoster == pc = "done" /\ resultado.keys = {"times", "time_5", "posicoes"}

\* The names of team i of the payload
Jogadores(i) == resultado.times[i].jogadores

\* The names of the 4 teams and of time_5, one list after the other
TodosOsGrupos ==
    Concat([i \in 1..Len(resultado.times) |-> Jogadores(i)]) \o resultado.time_5

\* How many members of team i the payload labels code
Rotulados(i, code) ==
    Cardinality({k \in 1..Len(Jogadores(i)) :
                    resultado.times[i].posicoes[Jogadores(i)[k]] = code})

\* The teams (their indices) that hold jogador
TimesCom(ts, jogador) == {i \in 1..Len(ts) : jogador \in Members(ts[i])}

\* C1: whenever players.json was read and a payload returned, 'times' has
\* exactly 4 entries and each entry's 'jogadores' holds exactly 5 names.
C1_QuatroTimesDeCinco ==
    RetornouRoster =>
        /\ Len(resultado.times) = 4
        /\ \A i \in 1..Len(resultado.times) : Len(Jogadores(i)) = 5

\* C2: in every returned roster each of the 4 teams holds at most one member
\* of the restricted group, after the repair loop and after the reset alike.
C2_UmRestritoPorTime ==
    RetornouRoster =>
        \A i \in 1..Len(resultado.times) : Len(RestritosNoTime(Jogadores(i))) <= 1

\* C3: in every returned roster time_5 is exactly the roster names that are
\* in none of the 4 teams, so the 4 teams and time_5 together are the 25
\* names of the roster.
C3_Time5EOResto ==
    RetornouRoster =>
        /\ Members(resultado.time_5)
              = {j \in Members(Roster) :
                    \A i \in 1..Len(resultado.times) : j \notin Members(Jogadores(i))}
        /\ Members(TodosOsGrupos) = Members(Roster)

\* C4: in every returned roster no name occurs more than once across the 4
\* teams and time_5 (no list repeats a name, the teams are pairwise
\* disjoint, time_5 is disjoint from them).
C4_SemNomeRepetido ==
    RetornouRoster =>
        \A a, b \in 1..Len(TodosOsGrupos) :
            TodosOsGrupos[a] = TodosOsGrupos[b] => a = b

\* C4, its case: a roster returned after repair moves, one of which took a
\* restricted player out of a team and found no team for it: the player is
\* in time_5
C4_RestritoNoTime5 ==
    /\ RetornouRoster
    /\ tentativa > 0
    /\ \E k \in 1..Len(resultado.time_5) : EhRestrito(resultado.time_5[k])
    /\ \A i \in 1..4 : Jogadores(i) # <<>>

\* C5: when opening or reading players.json fails, sortear_times returns a
\* mapping whose only key is 'erro', and no bucket, team or shuffle step has
\* run: the lists and the teams are as they were before the call.
C5_SoErroNaFalhaDeLeitura ==
    (pc = "done" /\ file = "") =>
        /\ resultado.keys = {"erro"}
        /\ players = <<>> /\ jogadores_com_posicao = <<>>
        /\ todos_jogadores = <<>>
        /\ zagueiros = <<>> /\ meias = <<>> /\ atacantes = <<>>
        /\ times = <<>> /\ todos_restantes = <<>>
        /\ tentativa = 0 /\ redistribuicoes = 0

\* C5, its case: the read failed and sortear_times returned
C5_LeituraFalhou == pc = "done" /\ file = "" /\ resultado = ResultadoErro

\* C6: for any readable content of players.json no exception propagates
\* out of sortear_times: it returns a roster payload or an error payload.
C6_NenhumaExcecao == pc # "raised"

\* One attempt changes the team of at most one player
NoMaximoUmaMudanca ==
    Cardinality({j \in Members(Roster) : TimesCom(times, j) # TimesCom(times', j)}) <= 1

\* The statements of sortear_times in the order they run, the return last
Etapas ==
    <<"carrega", "busca", "separa", "embaralha", "distribui", "preenche",
      "garante", "corrige", "apos_correcao", "refaz", "monta", "done">>

\* Where a value of pc stands in Etapas ("raised" leaves the function as
\* the return does)
Etapa(at) ==
    IF at = "raised" THEN Len(Etapas)
    ELSE CHOOSE k \in 1..Len(Etapas) : Etapas[k] = at

\* How many steps sortear_times can still take: those to the end of
\* Etapas, and in the loop one more for each attempt left
PassosRestantes ==
    (Len(Etapas) - Etapa(pc))
    + (IF Etapa(pc) <= Etapa("corrige") THEN max_tentativas - tentativa ELSE 0)

\* C7: every execution of sortear_times terminates: each step it takes
\* leaves fewer steps to take, and none are left only when it has returned
\* or raised.  tentativa never exceeds 50; each attempt counts one and
\* moves at most one player; the loop is left at the first scan that finds
\* no violation, the teams as they are; the redistribution runs at most
\* once and is followed by the result only.
C7_Termina ==
    /\ [](PassosRestantes \in Nat)
    /\ [](PassosRestantes = 0 <=> pc \in {"done", "raised"})
    /\ [][PassosRestantes' < PassosRestantes]_vars
    /\ [](tentativa <= max_tentativas)
    /\ [](redistribuicoes <= 1)
    /\ [][tentativa' # tentativa =>
            /\ tentativa' = tentativa + 1
            /\ pc = "corrige" /\ pc' = "corrige"
            /\ NoMaximoUmaMudanca]_vars
    /\ [][(pc = "corrige" /\ TimesEmViolacao(times) = {}) =>
            (pc' = "apos_correcao" /\ times' = times /\ tentativa' = tentativa)]_vars
    /\ [][redistribuicoes' # redistribuicoes => (pc = "apos_correcao" /\ pc' = "refaz")]_vars
    /\ [][pc = "refaz" => pc' = "monta"]_vars
    /\ [][pc = "monta" => pc' \in {"done", "raised"}]_vars

\* C7, its case: the 50 attempts ran out, the redistribution ran and
\* sortear_times returned
C7_CinquentaTentativas ==
    pc = "done" /\ tentativa = max_tentativas /\ redistribuicoes = 1

\* C8: in every returned roster each of the 4 teams has exactly 2 players
\* labelled ZAG, exactly 1 labelled MEI and exactly 2 labelled ATA.
C8_QuotaPorPosicao ==
    RetornouRoster =>
        \A i \in 1..Len(resultado.times) :
            /\ Rotulados(i, "ZAG") = 2
            /\ Rotulados(i, "MEI") = 1
            /\ Rotulados(i, "ATA") = 2

(***************************************************************************)
(* Properties of parse_mongodb_json                                        *)
(***************************************************************************)
\* The kinds of piece that are a well-formed JSON object with fullName
ObjetosComNome == {"compacto", "linhas", "chaves", "chaves_linhas"}

\* C9: for a text of two concatenated JSON objects that each hold fullName,
\* wherever the line breaks are (between them or inside them, or none at
\* all), parse_mongodb_json returns exactly 2 records, the first object
\* first and the second second.
C9_DoisObjetosDoisRegistros ==
    (/\ parser.pc = "done"
     /\ Len(input.kinds) = 2
     /\ \A k \in 1..2 : input.kinds[k] \in ObjetosComNome) =>
        parser.players = <<RecordOf(input.kinds[1], 1), RecordOf(input.kinds[2], 2)>>

\* C10: every element parse_mongodb_json returns, from the line scan or
\* from the whole-text fallback, is a mapping that has the key fullName.
C10_TodoRegistroTemNome ==
    parser.pc = "done" =>
        \A i \in 1..Len(parser.players) :
            IsDict(parser.players[i]) /\ HasKey(parser.players[i], KeyFullName)

\* The kinds of piece that open an object and never close it for the scan:
\* a quote left open, a closing brace too many
FragmentosMalFormados == {"aspas", "fecha"}

\* Every piece stands on lines of its own
UmaPecaPorLinhas == \A k \in 1..(Len(input.kinds) - 1) : input.seps[k] = "linha"

\* C11: when a malformed fragment (a quote left open, a closing brace too
\* many) is followed on later lines by well-formed objects that hold
\* fullName, parse_mongodb_json returns every one of those later objects.
C11_FragmentoNaoPerdeOsSeguintes ==
    (/\ parser.pc = "done"
     /\ Len(input.kinds) >= 2
     /\ input.kinds[1] \in FragmentosMalFormados
     /\ UmaPecaPorLinhas
     /\ \A k \in 2..Len(input.kinds) : input.kinds[k] \in ObjetosComNome) =>
        \A k \in 2..Len(input.kinds) :
            \E i \in 1..Len(parser.players) :
                parser.players[i] = RecordOf(input.kinds[k], k)

\* The kinds of piece that are an object with fullName and wrapped values
ObjetosMongo == {"mongo", "mongo_negativo"}

\* C12: for a text that is one JSON object with fullName whose values are
\* written ObjectId("X"), NumberInt(N) or ISODate("X"), parse_mongodb_json
\* returns one record, in which each such value is the string X, the
\* integer N, the string X.
C12_WrappersViramValores ==
    (/\ parser.pc = "done"
     /\ Len(input.kinds) = 1
     /\ input.kinds[1] \in ObjetosMongo) =>
        parser.players = <<RecordOf(input.kinds[1], 1)>>

\* The number of lines of a piece that is a well-formed object
LinhasDe(kind) ==
    CASE kind \in {"compacto", "chaves"} -> 1
      [] kind = "linhas" -> 3
      [] kind = "chaves_linhas" -> 4

\* The line on which piece k closes, every piece on lines of its own
RECURSIVE UltimaLinha(_, _)
UltimaLinha(in, k) ==
    IF k = 0 THEN 0 ELSE UltimaLinha(in, k - 1) + LinhasDe(in.kinds[k])

\* Well-formed objects with fullName, each on lines of its own, one of them
\* at least with braces, brackets and an escaped quote in a string
ObjetosComChavesEmStrings ==
    /\ \A k \in 1..Len(input.kinds) : input.kinds[k] \in ObjetosComNome
    /\ \E k \in 1..Len(input.kinds) : input.kinds[k] \in {"chaves", "chaves_linhas"}
    /\ UmaPecaPorLinhas

\* C13: braces and brackets inside string literals do not change depth and
\* an escaped quote does not end the string: over well-formed objects with
\* fullName whose strings hold such characters, after each line depth is 0
\* exactly when the line closes an object, no string is open, and the
\* records collected are the objects closed so far, one record each.
C13_ProfundidadeSoForaDeStrings ==
    (ObjetosComChavesEmStrings /\ parser.pc \in {"scan", "done"}) =>
        LET lidas == parser.next - 1
            fechados == {k \in 1..Len(input.kinds) : UltimaLinha(input, k) <= lidas}
        IN  /\ ~parser.in_string
            /\ parser.depth = 0 <=>
                   (lidas = 0 \/ \E k \in fechados : UltimaLinha(input, k) = lidas)
            /\ parser.players =
                   [k \in 1..Cardinality(fechados) |-> RecordOf(input.kinds[k], k)]

\* The scan is inside the object whose string holds the brackets, past the
\* line of that string, and a second such object follows
C13_DentroDoObjetoComChaves ==
    /\ ObjetosComChavesEmStrings
    /\ parser.pc = "scan"
    /\ input.kinds = <<"chaves_linhas", "chaves">>
    /\ parser.next = 4
    /\ parser.depth = 1

(***************************************************************************)
(* Properties of buscar_posicao_jogador and normalizar_posicao             *)
(***************************************************************************)
\* The records whose trimmed, lower-cased fullName is the trimmed,
\* lower-cased name looked up
MatchExato ==
    {k \in 1..Len(consulta.players) :
        Lower(Strip(DictGet(consulta.players[k], KeyFullName).s))
            = Lower(Strip(consulta.nome))}

\* C19: when some record's trimmed, lower-cased fullName equals the name
\* looked up, buscar_posicao_jogador returns the position of the first such
\* record, also when an earlier record matches by token containment only.
C19_MatchExatoPrimeiro ==
    (consulta.pc = "buscado" /\ MatchExato # {}) =>
        consulta.posicao = extrair_posicao_normalizada(consulta.players[Min(MatchExato)])

\* C20: normalizar_posicao gives ZAG for a label whose lower-cased form
\* holds "zag" or "lateral", else MEI when it holds "mei" or "volante",
\* else ATA, the empty label and the labels that match nothing included.
C20_TresCodigos ==
    consulta.pc = "normalizado" =>
        LET rotulo == Lower(consulta.rotulo)
            Tem(parte) == Contains(rotulo, parte)
        IN  /\ consulta.codigo \in {"ZAG", "MEI", "ATA"}
            /\ consulta.codigo = "ZAG" <=>
                   (Tem(<<"z", "a", "g">>) \/ Tem(<<"l", "a", "t", "e", "r", "a", "l">>))
            /\ consulta.codigo = "MEI" <=>
                   /\ ~(Tem(<<"z", "a", "g">>) \/ Tem(<<"l", "a", "t", "e", "r", "a", "l">>))
                   /\ Tem(<<"m", "e", "i">>) \/ Tem(<<"v", "o", "l", "a", "n", "t", "e">>)

\* A label that holds "mei" and "lateral" was given ZAG
C20_MeiaLateralEhZag ==
    /\ consulta.pc = "normalizado"
    /\ consulta.rotulo = <<"M", "e", "i", "a", " ", "L", "a", "t", "e", "r", "a", "l">>
    /\ consulta.codigo = "ZAG"

(***************************************************************************)
(* Properties of extrair_awards_jogadores                                  *)
(***************************************************************************)
\* The ranking returned under a category
Lista(categoria) == Valor(ranking.categorias, categoria, <<>>)

\* The totals a ranking gives a name, in the order of the ranking
TotaisDe(lista, nome) ==
    LET DoNome(item) == item.nome = nome
        itens == SelectSeq(lista, DoNome)
    IN  [i \in 1..Len(itens) |-> itens[i].total]

\* The entries of includedTeams of record k whose trimmed teamCode is the
\* record's own trimmed teamCode, the record having one
EntradasProprias(k) ==
    LET player == ranking.players[k]
        proprio == Strip(GetOr(player, KeyTeamCode, JStr(<<>>)).s)
        entradas == GetOr(player, KeyIncludedTeams, JList(<<>>)).kv
    IN  IF proprio = <<>> THEN {}
        ELSE {i \in 1..Len(entradas) :
                 Strip(GetOr(entradas[i].v, KeyTeamCode, JStr(<<>>)).s) = proprio}

\* What record k counts under a stat field or an award: the value in the
\* first of its own entries when it is an integer of 1 or more, else 0
Conta(k, campo) ==
    IF EntradasProprias(k) = {} THEN 0
    ELSE LET entrada == DictGet(ranking.players[k], KeyIncludedTeams)
                            .kv[Min(EntradasProprias(k))].v
             onde == IF campo \in Members(categorias_awards)
                     THEN GetOr(entrada, KeyAwards, JDict(<<>>))
                     ELSE entrada
             qtd == IntDe(GetOr(onde, campo, JNum(0)))
         IN  IF qtd.ok /\ qtd.n >= 1 THEN qtd.n ELSE 0

RECURSIVE SomaAte(_, _, _, _)
\* The sum of what the records 1..k of a name count under campo, the
\* goalkeeper records or the others
SomaAte(k, nome, goleiro, campo) ==
    IF k = 0 THEN 0
    ELSE SomaAte(k - 1, nome, goleiro, campo)
         + (IF /\ NomeDe(ranking.players[k]) = nome
               /\ EhGoleiro(ranking.players[k]) = goleiro
            THEN Conta(k, campo)
            ELSE 0)

\* The names of the records, as the rankings give them
NomesDosRegistros == {NomeDe(ranking.players[k]) : k \in 1..Len(ranking.players)}

\* The sums that are not 0, as a sequence
Positivos(a, b) ==
    (IF a > 0 THEN <<a>> ELSE <<>>) \o (IF b > 0 THEN <<b>> ELSE <<>>)

\* A name all of whose records lack an entry of their own team is in no
\* ranking
SemTimeSemRanking ==
    \A nome \in NomesDosRegistros :
        (\A k \in 1..Len(ranking.players) :
            NomeDe(ranking.players[k]) = nome => EntradasProprias(k) = {}) =>
            \A c \in 1..Len(ranking.categorias) :
                TotaisDe(ranking.categorias[c].v, nome) = <<>>

\* C14 as stated: every total of the totalGoals ranking is the totalGoals
\* value of an includedTeams entry of a record of that name whose teamCode
\* is the record's own, and a player without such an entry is in no ranking.
C14_GolsDoProprioTime ==
    ranking.pc = "done" =>
        /\ \A i \in 1..Len(Lista(TotalGoals)) :
               \E k \in 1..Len(ranking.players) :
                   /\ NomeDe(ranking.players[k]) = Lista(TotalGoals)[i].nome
                   /\ EntradasProprias(k) # {}
                   /\ Conta(k, TotalGoals) = Lista(TotalGoals)[i].total
        /\ SemTimeSemRanking

\* C14, amended: the totalGoals ranking gives a name the sum, over the
\* records of that name (the goalkeeper records and the others summed
\* apart), of the positive totalGoals of the first includedTeams entry whose
\* teamCode is the record's own; the other entries add nothing, and a name
\* whose records have no such entry is in no ranking.
C14_SomaDosProprioTimes ==
    ranking.pc = "done" =>
        /\ \A nome \in NomesDosRegistros :
               LET n == Len(ranking.players)
                   a == SomaAte(n, nome, FALSE, TotalGoals)
                   b == SomaAte(n, nome, TRUE, TotalGoals)
               IN  TotaisDe(Lista(TotalGoals), nome) \in {Positivos(a, b), Positivos(b, a)}
        /\ \A i \in 1..Len(Lista(TotalGoals)) :
               Lista(TotalGoals)[i].nome \in NomesDosRegistros
        /\ SemTimeSemRanking

\* The entry of another team came first and the player's own gave the
\* total, beside a player whose team is not among the entries
C14_OutroTimeAntes ==
    /\ ranking.pc = "done"
    /\ ranking.players =
           <<Registro(<<" ", "B", "i", "a", " ">>, <<"Z", "a", "g", "u", "e", "i", "r", "a">>, "outro_antes"),
             Registro(<<"C", "i", "d">>, <<"Z", "a", "g", "u", "e", "i", "r", "a">>, "sem_time")>>
    /\ Lista(TotalGoals) = <<[nome |-> <<"B", "i", "a">>, total |-> 2]>>

C16_RankingOrdenado ==
    ranking.pc = "done" =>
        \A c \in 1..Len(ranking.categorias) :
            LET lista == ranking.categorias[c].v
                D(i) == Desempate(lista[i].nome, ranking.dados_por_jogador,
                                  ranking.dados_por_goleiro)
            IN  \A i \in 1..(Len(lista) - 1) :
                    /\ lista[i].total >= lista[i + 1].total
                    /\ lista[i].total = lista[i + 1].total =>
                           D(i).vitorias >= D(i + 1).vitorias
                    /\ (/\ lista[i].total = lista[i + 1].total
                        /\ D(i).vitorias = D(i + 1).vitorias) =>
                           D(i).partidas <= D(i + 1).partidas

\* Two players with 2 wins each: the one with 2 matches was put before the
\* one with 3, who came first in the input
C16_MenosPartidasPrimeiro ==
    /\ ranking.pc = "done"
    /\ ranking.players =
           <<Registro(<<"A", "n", "a">>, <<"Z", "a", "g", "u", "e", "i", "r", "a">>, "proprio"),
             Registro(<<" ", "B", "i", "a", " ">>, <<"Z", "a", "g", "u", "e", "i", "r", "a">>, "outro_antes"),
             Registro(<<"A", "n", "a">>, <<"Z", "a", "g", "u", "e", "i", "r", "a">>, "invalidos")>>
    /\ Lista(TotalWins) = <<[nome |-> <<"B", "i", "a">>, total |-> 2], [nome |-> <<"A", "n", "a">>, total |-> 2]>>

\* The categories the records hold values under
CamposDosRegistros == {Craque, TotalGoals, TotalWins, TotalGamePlayed}

\* C17: after each record, the total of a player who is no goalkeeper is,
\* under every award and stat field, the sum of the values of 1 or more
\* (int or numeric string) in the matching team entries of the player's
\* records so far, the other values adding nothing; every entry of every
\* ranking has a total of 1 or more; the one record of Ana gives
\* totalGoals == [('Ana', 3)] and craque == [('Ana', 2)].
C17_SoPositivosSomados ==
    /\ ranking.pc # "idle" =>
           \A nome \in NomesDosRegistros, campo \in CamposDosRegistros :
               Valor(Valor(ranking.dados_por_jogador, nome, <<>>), campo, 0)
                   = SomaAte(ranking.next - 1, nome, FALSE, campo)
    /\ ranking.pc = "done" =>
           \A c \in 1..Len(ranking.categorias) :
               \A i \in 1..Len(ranking.categorias[c].v) :
                   ranking.categorias[c].v[i].total >= 1
    /\ (ranking.pc = "done" /\ ranking.players = <<RegistroAna>>) =>
           /\ Lista(TotalGoals) = <<[nome |-> <<"A", "n", "a">>, total |-> 3]>>
           /\ Lista(Craque) = <<[nome |-> <<"A", "n", "a">>, total |-> 2]>>

\* Ana's record of the scenario and a record of hers with -1 goals, wins
\* "x" and "2" craque awards: 3 goals, 4 awards, no wins
C17_AnaComInvalidos ==
    /\ ranking.pc = "done"
    /\ ranking.players = <<RegistroAna, Registro(<<"A", "n", "a">>, <<"Z", "a", "g", "u", "e", "i", "r", "a">>, "invalidos")>>
    /\ Lista(TotalGoals) = <<[nome |-> <<"A", "n", "a">>, total |-> 3]>>
    /\ Lista(Craque) = <<[nome |-> <<"A", "n", "a">>, total |-> 4]>>
    /\ Lista(TotalWins) = <<>>

\* The list is in ascending order, no name twice
NomesEmOrdem ==
    \A i \in 1..(Len(ranking.nomes_todos_jogadores_lista) - 1) :
        StrMenor(ranking.nomes_todos_jogadores_lista[i],
                 ranking.nomes_todos_jogadores_lista[i + 1])

\* The trimmed fullName of the records that have one, the empty one left out
NomesNaoVazios ==
    {Strip(DictGet(ranking.players[k], KeyFullName).s) :
        k \in {j \in 1..Len(ranking.players) : HasKey(ranking.players[j], KeyFullName)}}
    \ {<<>>}

\* C18 as stated: the list of names returned is sorted, has no name twice
\* and holds every non-empty trimmed fullName of the records.
C18_TodosOsNomes ==
    ranking.pc = "done" =>
        /\ NomesEmOrdem
        /\ Members(ranking.nomes_todos_jogadores_lista) = NomesNaoVazios

\* C18, amended: the list of names returned is sorted, has no name twice
\* and holds every non-empty trimmed fullName of the records other than
\* 'Sem nome', also of the players without a matching team entry.
C18_NomesMenosSemNome ==
    ranking.pc = "done" =>
        /\ NomesEmOrdem
        /\ Members(ranking.nomes_todos_jogadores_lista) = NomesNaoVazios \ {SemNome}

\* Cid, without a team entry of his own, and Bia, given with blanks and
\* after him, are both listed, Bia first
C18_CidSemTimeNaLista ==
    /\ ranking.pc = "done"
    /\ ranking.players =
           <<Registro(<<"C", "i", "d">>, <<"Z", "a", "g", "u", "e", "i", "r", "a">>, "sem_time"),
             Registro(<<" ", "B", "i", "a", " ">>, <<"Z", "a", "g", "u", "e", "i", "r", "a">>, "proprio"),
             Registro(<<" ">>, <<"Z", "a", "g", "u", "e", "i", "r", "a">>, "proprio")>>
    /\ ranking.nomes_todos_jogadores_lista = <<<<"B", "i", "a">>, <<"C", "i", "d">>>>

\* The match-stat rankings of the goalkeepers: the keys with goleiro_
ChavesDeGoleiro ==
    {PrefixoGoleiro \o campos_estatisticas_goleiros[c] :
        c \in 1..Len(campos_estatisticas_goleiros)}

\* The names of the records that are goalkeeper records, or are not
NomesDosGoleiros(goleiro) ==
    {NomeDe(ranking.players[k]) :
        k \in {j \in 1..Len(ranking.players) : EhGoleiro(ranking.players[j]) = goleiro}}

C29_NomeUmaVezPorRanking ==
    ranking.pc = "done" =>
        \A c \in 1..Len(ranking.categorias) :
            \A i, j \in 1..Len(ranking.categorias[c].v) :
                ranking.categorias[c].v[i].nome = ranking.categorias[c].v[j].nome => i = j

\* C30: every name in a ranking is in the list of names returned, also the
\* name of a record whose fullName is missing, empty or blank.
C30_NomesDosRankingsNaLista ==
    ranking.pc = "done" =>
        \A c \in 1..Len(ranking.categorias) :
            \A i \in 1..Len(ranking.categorias[c].v) :
                ranking.categorias[c].v[i].nome
                    \in Members(ranking.nomes_todos_jogadores_lista)

(***************************************************************************)
(* Properties of the repair loop and of the reset of sortear_times         *)
(***************************************************************************)
\* An attempt of the repair loop that found a violation has just run
TentativaComViolacao == pc = "corrige" /\ tentativa' = tentativa + 1

\* C22: in each repair attempt that finds a team with more than one
\* restricted member, the first restricted member of that team is removed
\* and appended to the lowest-indexed other team that has no restricted
\* member and fewer than 5 members, if there is one, otherwise to the
\* lowest-indexed other team with fewer than 5 members; no other change.
C22_UmMovimentoPorTentativa ==
    [][TentativaComViolacao =>
          LET origem == Min(TimesEmViolacao(times))
              jogador == RestritosNoTime(times[origem])[1]
              sem == [times EXCEPT ![origem] = RemoveFirst(times[origem], jogador)]
              livres == {o \in 1..4 : /\ o # origem
                                       /\ RestritosNoTime(sem[o]) = <<>>
                                       /\ Len(sem[o]) < 5}
              com_espaco == {o \in 1..4 : o # origem /\ Len(sem[o]) < 5}
              destinos == IF livres # {} THEN {Min(livres)}
                          ELSE IF com_espaco # {} THEN {Min(com_espaco)}
                          ELSE {}
          IN  \E destino \in destinos :
                  times' = [sem EXCEPT ![destino] = Append(sem[destino], jogador)]]_vars

\* C24: the reset is entered only when some team still holds more than one
\* restricted member, never on teams that satisfy the restriction.
C24_ResetSoComViolacao ==
    [][(pc = "apos_correcao" /\ pc' = "refaz") =>
          \E i \in 1..4 : \E a, b \in 1..Len(times[i]) :
              a # b /\ EhRestrito(times[i][a]) /\ EhRestrito(times[i][b])]_vars

\* C24, its case: the 50 attempts ran out with two restricted members in a
\* team, and the reset has started
C24_ResetComecou ==
    pc = "refaz" /\ tentativa = max_tentativas /\ redistribuicoes = 1

\* C28: a repair attempt conserves the players of the 4 teams: the member
\* it removes from a team is appended to another team in the same attempt.
C28_MovimentoConservaJogadores ==
    [][TentativaComViolacao =>
          Members(Concat(times')) = Members(Concat(times))]_vars

\* C23: when the reset runs, the restricted members are assigned one per
\* team to the first teams, the refill draws from the others only, each
\* restricted member stays on the team it was assigned to, and after the
\* reset every team holds at most one restricted member.
C23_RestritosFicamNoTime ==
    /\ [](pc = "refaz" =>
            \A i \in 1..4 :
                Len(RestritosNoTime(times[i]))
                    = (IF i <= Len(RestritosNoTime(Concat(times))) THEN 1 ELSE 0))
    /\ [][pc = "refaz" =>
            \A i \in 1..4 :
                /\ \A j \in Members(RestritosNoTime(times[i])) : j \in Members(times'[i])
                /\ Len(RestritosNoTime(times'[i])) <= 1]_vars

\* The trimming of lines 320-322 pops no player
CorteNaoRemove ==
    [][pc = "garante" => (times' = times /\ todos_restantes' = todos_restantes)]_vars

\* C27, as stated: at every point of every execution no team holds more
\* than 5 players, and the trimming step never removes a player.
C27_NuncaMaisDeCinco ==
    /\ [](\A i \in DOMAIN times : Len(times[i]) <= 5)
    /\ CorteNaoRemove

\* C27, amended: no team holds more than 5 players at any point but one:
\* between the reset's append of one restricted member per team and the
\* clearing of the teams, a team holds at most 6.  The trimming step never
\* removes a player.
C27_MaisDeCincoSoNoReset ==
    /\ [](\A i \in DOMAIN times :
             Len(times[i]) <= (IF pc = "refaz" THEN 6 ELSE 5))
    /\ CorteNaoRemove

\* C27, its case: the reset appended a restricted member to a team that
\* kept 5 players
C27_TimeComSeis ==
    pc = "refaz" /\ \E i \in 1..4 : Len(times[i]) = 6

(***************************************************************************)
(* Properties of the fill of sortear_times                                 *)
(***************************************************************************)
\* C25: after the quota fill and the fill from what was left, before the
\* repair loop, each of the 4 teams holds exactly 5 players and the
\* leftover pool holds exactly the other 5 names of the roster, whatever
\* the shuffles and whatever ZAG, MEI or ATA the four lookups gave.
C25_CincoPorTimeAntesDaCorrecao ==
    (pc = "corrige" /\ tentativa = 0) =>
        /\ Len(times) = 4
        /\ \A i \in 1..4 : Len(times[i]) = 5
        /\ Cardinality(Members(Concat(times))) = 20
        /\ Len(todos_restantes) = 5
        /\ Members(todos_restantes) = Members(Roster) \ Members(Concat(times))

\* C25, its case: the four lookups all gave ATA, the meias were too few
\* for the quota and a team without meia was filled from what was left
C25_TimeSemMeia ==
    /\ pc = "corrige"
    /\ \A nome \in Members(jogadores_sem_posicao) : jogadores_com_posicao[nome] = "ATA"
    /\ \E i \in 1..4 :
          \A k \in 1..Len(times[i]) : jogadores_com_posicao[times[i][k]] # "MEI"

(***************************************************************************)
(* Properties of sortear_times called more than once                       *)
(***************************************************************************)
\* The entries of the table of lines 208-234 that no lookup writes
PosicoesFixas(posicoes) ==
    [nome \in DOMAIN posicoes \ Members(jogadores_sem_posicao) |-> posicoes[nome]]

====
